---- MODULE Spec2Model ----
(***************************************************************************)
(* The HTTP API of server/routes.ts as a state machine.                    *)
(*                                                                         *)
(* State: the tables of the storage layer (users, teams, team members,     *)
(* projects, tasks, comments, files, messages, and the serial id counters),*)
(* the userId held by each session, the last request with its response     *)
(* (resp) and the store and sessions as that request found them (before).  *)
(* One step is one request handled to completion by its route handler, the *)
(* middlewares of the route included.                                      *)
(*                                                                         *)
(* The clients first replay a provisioning script (a list of ordinary      *)
(* requests, drawn from Scripts) against the empty store; then the actor's *)
(* session sends up to MaxSteps arbitrary requests.                        *)
(***************************************************************************)
EXTENDS Integers, Sequences, FiniteSets, TLC

VARIABLES users, teams, members, projects, tasks, comments, files, messages,
          nextId, session, resp, before, script, steps, inflight, faulty,
          conv

vars == <<users, teams, members, projects, tasks, comments, files, messages,
          nextId, session, resp, before, script, steps, inflight, faulty,
          conv>>

\* The number of arbitrary requests sent after the provisioning script.
MaxSteps == 1

\* The sessions (cookies) that requests arrive on: session 1 is the
\* provisioning client's, session 2 the actor's.
Sessions == {1, 2}

\* The sessions that send requests once the script is done.
Clients == {2}

\* ------------------------------------------------------------------ values

\* A table with no rows.
EmptyTable == [i \in {} |-> 0]

Min(S) == CHOOSE x \in S : \A y \in S : x <= y

\* The spread with the operands' precedence swapped: a's value where both
\* have the key.
SpreadKeeping(a, b) ==
    [f \in DOMAIN a \cup DOMAIN b |-> IF f \in DOMAIN a THEN a[f] ELSE b[f]]

\* { ...a, ...b }: the keys of both, b's value where both have the key.
Spread(a, b) ==
    [f \in DOMAIN a \cup DOMAIN b |-> IF f \in DOMAIN b THEN b[f] ELSE a[f]]

\* The rows ids of table tbl, in id order.
RECURSIVE Rows(_, _)
Rows(tbl, ids) ==
    IF ids = {} THEN <<>>
    ELSE LET i == Min(ids) IN <<tbl[i]>> \o Rows(tbl, ids \ {i})

\* const { password, ...userWithoutPassword } = user
WithoutPassword(u) == [f \in DOMAIN u \ {"password"} |-> u[f]]

\* The store and the sessions as one value, as a handler sees them.
State ==
    [users |-> users, teams |-> teams, members |-> members,
     projects |-> projects, tasks |-> tasks, comments |-> comments,
     files |-> files, messages |-> messages, nextId |-> nextId,
     session |-> session]

\* The tables alone.
StoreOf(st) ==
    [users |-> st.users, teams |-> st.teams, members |-> st.members,
     projects |-> st.projects, tasks |-> st.tasks, comments |-> st.comments,
     files |-> st.files, messages |-> st.messages, nextId |-> st.nextId]

Tables ==
    {"users", "teams", "members", "projects", "tasks", "comments", "files",
     "messages"}

EmptyState ==
    [users |-> EmptyTable, teams |-> EmptyTable, members |-> EmptyTable,
     projects |-> EmptyTable, tasks |-> EmptyTable, comments |-> EmptyTable,
     files |-> EmptyTable, messages |-> EmptyTable,
     nextId |-> [t \in Tables |-> 1],
     session |-> [s \in Sessions |-> 0]]

\* ----------------------------------------------------------------- storage
\* The storage layer (./storage): tables keyed by a serial id; a row is
\* inserted with the columns of its table, updated by overwriting the columns
\* the update names, and deleted alone (no cascade to the rows that name it).

Columns ==
    [users    |-> [id |-> 0, username |-> "", password |-> "", email |-> "",
                   role |-> "member"],
     teams    |-> [id |-> 0, name |-> "", createdBy |-> 0],
     members  |-> [id |-> 0, teamId |-> 0, userId |-> 0, role |-> "member"],
     projects |-> [id |-> 0, name |-> "", teamId |-> 0],
     tasks    |-> [id |-> 0, projectId |-> 0, assigneeId |-> 0,
                   status |-> "todo", order |-> 0],
     comments |-> [id |-> 0, taskId |-> 0, userId |-> 0, content |-> ""],
     files    |-> [id |-> 0, projectId |-> 0, taskId |-> 0, uploadedBy |-> 0],
     messages |-> [id |-> 0, teamId |-> 0, userId |-> 0, content |-> ""]]

\* The row a table stores for data: the table's columns, defaults where data
\* names none, under the id given.
Row(t, id, data) ==
    [f \in DOMAIN Columns[t] |->
        IF f = "id" THEN id
        ELSE IF f \in DOMAIN data THEN data[f] ELSE Columns[t][f]]

\* create<T>(data): the state with the row inserted under the next serial id.
create(st, t, data) ==
    LET id == st.nextId[t] IN
    [st EXCEPT ![t] = st[t] @@ (id :> Row(t, id, data)),
               !.nextId[t] = id + 1]

\* The id create(st, t, data) gives the new row.
createdId(st, t) == st.nextId[t]

\* update<T>(id, data): the columns data names overwritten (the id is kept).
update(st, t, id, data) ==
    [st EXCEPT ![t][id] = Row(t, id, Spread(st[t][id], data))]

\* delete<T>(id)
delete(st, t, id) ==
    [st EXCEPT ![t] = [i \in DOMAIN st[t] \ {id} |-> st[t][i]]]

\* get<T>(id) finds a row.
has(st, t, id) == id \in DOMAIN st[t]

\* getUserByUsername / getUserByEmail: the first user with the value.
usersWith(st, col, v) == {i \in DOMAIN st.users : st.users[i][col] = v}

\* getTeamMembers(teamId): the ids of the team's membership rows.
getTeamMembers(st, teamId) ==
    {m \in DOMAIN st.members : st.members[m].teamId = teamId}

\* teamMembers.find(member => member.userId === uid): the first such row.
memberIds(st, teamId, uid) ==
    {m \in getTeamMembers(st, teamId) : st.members[m].userId = uid}

\* The membership test passing for admin memberships only.
isMemberAsAdmin(st, teamId, uid) ==
    \E m \in memberIds(st, teamId, uid) : st.members[m].role = "admin"

\* teamMembers.some(member => member.userId === uid)
isMember(st, teamId, uid) == memberIds(st, teamId, uid) # {}

membership(st, teamId, uid) == st.members[Min(memberIds(st, teamId, uid))]

\* The admin check without its role test: any membership passes.
isAdminMemberAnyRole(st, teamId, uid) == isMember(st, teamId, uid)

\* currentUserMembership && currentUserMembership.role === "admin"
isAdminMember(st, teamId, uid) ==
    isMember(st, teamId, uid) /\ membership(st, teamId, uid).role = "admin"

\* removeTeamMember(teamId, userId): the first matching row is deleted.
removeTeamMember(st, teamId, uid) ==
    delete(st, "members", Min(memberIds(st, teamId, uid)))

\* getTeamsByUser(uid): the teams the user has a membership row in.
getTeamsByUser(st, uid) ==
    {t \in DOMAIN st.teams : isMember(st, t, uid)}

getProjectsByTeam(st, teamId) ==
    {p \in DOMAIN st.projects : st.projects[p].teamId = teamId}

getTasksByProject(st, projectId) ==
    {k \in DOMAIN st.tasks : st.tasks[k].projectId = projectId}

getTasksByAssignee(st, uid) ==
    {k \in DOMAIN st.tasks : st.tasks[k].assigneeId = uid}

getCommentsByTask(st, taskId) ==
    {c \in DOMAIN st.comments : st.comments[c].taskId = taskId}

getFilesByProject(st, projectId) ==
    {f \in DOMAIN st.files : st.files[f].projectId = projectId}

getFilesByTask(st, taskId) ==
    {f \in DOMAIN st.files : st.files[f].taskId = taskId}

\* getMessagesByTeam(teamId): the team's messages; the store hands each one
\* over with its author's user record as message.user, which the handler
\* reads (a message whose author is not stored has none).
getMessagesByTeam(st, teamId) ==
    {m \in DOMAIN st.messages : st.messages[m].teamId = teamId}

\* --------------------------------------------------------------- responses
\* What a handler gives back: the state it leaves, the status code, the JSON
\* body (kind "message" for { message }, "one" for an object, "list" for an
\* array) and the storage calls it made, in order.

Reply(st, status, kind, val, calls) ==
    [st |-> st, status |-> status, kind |-> kind, val |-> val, calls |-> calls]

Msg(st, status, text, calls) == Reply(st, status, "message", text, calls)

\* A request: the route, the session it arrives on, the path parameters
\* (0 where the route has none), the JSON body or query, and whether the
\* body passes the route's schema.
Rq(ep, sid, id, id2, body) ==
    [ep |-> ep, sid |-> sid, id |-> id, id2 |-> id2, body |-> body,
     valid |-> TRUE]

NoBody == [none |-> 0]

\* req.body.<f> / req.query.<f>, with the falsy value where it is absent.
Field(body, f, absent) == IF f \in DOMAIN body THEN body[f] ELSE absent

\* The middlewares in the other order: validateBody before requireAuth.
RouteValidatingFirst(st, req, needs, handled) ==
    IF needs /\ ~req.valid THEN Msg(st, 400, "Validation error", <<>>)
    ELSE IF st.session[req.sid] = 0 THEN Msg(st, 401, "Unauthorized", <<>>)
    ELSE handled

\* requireAuth also looking the session's user up: 401 when it is not stored.
RouteCheckingUser(st, req, needs, handled) ==
    IF st.session[req.sid] = 0 \/ st.session[req.sid] \notin DOMAIN st.users
    THEN Msg(st, 401, "Unauthorized", <<>>)
    ELSE IF needs /\ ~req.valid THEN Msg(st, 400, "Validation error", <<>>)
    ELSE handled

\* requireAuth, then validateBody(schema) where the route has one (needs),
\* then the handler.
Route(st, req, needs, handled) ==
    IF st.session[req.sid] = 0 THEN Msg(st, 401, "Unauthorized", <<>>)
    ELSE IF needs /\ ~req.valid THEN Msg(st, 400, "Validation error", <<>>)
    ELSE handled

\* ------------------------------------------------------------ auth routes

BootstrapPassword == "pass123"

\* The bootstrap branch creating its user whether or not one is stored.
adminMissingAlways(found) == TRUE

\* !adminUser: storage.getUserByUsername("admin") found nothing.
adminMissing(found) == found = {}

\* A rejected login that also drops the session's userId.
invalidCredentialsUnbinding(st, req) ==
    Msg([st EXCEPT !.session[req.sid] = 0], 401, "Invalid credentials",
        <<"getUserByUsername">>)

\* return res.status(401).json({ message: "Invalid credentials" })
invalidCredentials(st, req) ==
    Msg(st, 401, "Invalid credentials", <<"getUserByUsername">>)

OnLogin(st, req) ==
    LET username == Field(req.body, "username", "")
        password == Field(req.body, "password", "")
    IN
    IF username = "admin" /\ password = BootstrapPassword THEN
        LET found == usersWith(st, "username", "admin")
            st1 == IF adminMissing(found) THEN
                       create(st, "users",
                              [username |-> "admin",
                               password |-> BootstrapPassword,
                               email |-> "admin@teamflow.com",
                               role |-> "admin"])
                   ELSE st
            id == IF adminMissing(found) THEN createdId(st, "users")
                  ELSE Min(found)
            calls == IF adminMissing(found)
                     THEN <<"getUserByUsername", "createUser">>
                     ELSE <<"getUserByUsername">>
        IN Reply([st1 EXCEPT !.session[req.sid] = id], 200, "one",
                 WithoutPassword(st1.users[id]), calls)
    ELSE
        LET found == usersWith(st, "username", username) IN
        IF found = {} \/ st.users[Min(found)].password # password THEN
            invalidCredentials(st, req)
        ELSE
            Reply([st EXCEPT !.session[req.sid] = Min(found)], 200, "one",
                  WithoutPassword(st.users[Min(found)]),
                  <<"getUserByUsername">>)

\* A logout that answers without destroying the session.
OnLogoutKeeping(st, req) == Msg(st, 200, "Logged out successfully", <<>>)

OnLogout(st, req) ==
    Msg([st EXCEPT !.session[req.sid] = 0], 200, "Logged out successfully",
        <<>>)

\* GET /api/auth/me dropping the session's userId when the user is not
\* stored.
OnGetMeUnbinding(st, uid, req) ==
    IF ~has(st, "users", uid) THEN
        Msg([st EXCEPT !.session[req.sid] = 0], 404, "User not found",
            <<"getUser">>)
    ELSE Reply(st, 200, "one", WithoutPassword(st.users[uid]), <<"getUser">>)

OnGetMe(st, uid, req) ==
    IF ~has(st, "users", uid) THEN
        Msg(st, 404, "User not found", <<"getUser">>)
    ELSE Reply(st, 200, "one", WithoutPassword(st.users[uid]), <<"getUser">>)

\* ------------------------------------------------------------ user routes

\* The fields GET /api/users copies from each user.
Sanitized(u) ==
    [id |-> u.id, username |-> u.username, email |-> u.email,
     role |-> IF u.role = "" THEN "member" ELSE u.role]

OnGetUsers(st, uid, req) ==
    LET all == Rows(st.users, DOMAIN st.users) IN
    Reply(st, 200, "list", [i \in DOMAIN all |-> Sanitized(all[i])],
          <<"getAllUsers">>)

\* currentUser && currentUser.role === "admin"
isGlobalAdmin(st, uid) == has(st, "users", uid) /\ st.users[uid].role = "admin"

OnPostUsers(st, uid, req) ==
    IF ~isGlobalAdmin(st, uid) THEN
        Msg(st, 403, "Only admins can create new users", <<"getUser">>)
    ELSE IF usersWith(st, "username", Field(req.body, "username", "")) # {} THEN
        Msg(st, 400, "Username already taken",
            <<"getUser", "getUserByUsername">>)
    ELSE IF usersWith(st, "email", Field(req.body, "email", "")) # {} THEN
        Msg(st, 400, "Email already in use",
            <<"getUser", "getUserByUsername", "getUserByEmail">>)
    ELSE
        LET st1 == create(st, "users", req.body) IN
        Reply(st1, 201, "one",
              WithoutPassword(st1.users[createdId(st, "users")]),
              <<"getUser", "getUserByUsername", "getUserByEmail",
                "createUser">>)

OnGetUser(st, uid, req) ==
    IF ~has(st, "users", req.id) THEN
        Msg(st, 404, "User not found", <<"getUser">>)
    ELSE Reply(st, 200, "one", WithoutPassword(st.users[req.id]),
               <<"getUser">>)

OnPutUser(st, uid, req) ==
    IF uid # req.id /\ ~isGlobalAdmin(st, uid) THEN
        Msg(st, 403, "Not authorized to update this user", <<"getUser">>)
    ELSE IF Field(req.body, "role", "") # "" /\ ~isGlobalAdmin(st, uid) THEN
        Msg(st, 403, "Not authorized to change role", <<"getUser">>)
    ELSE IF ~has(st, "users", req.id) THEN
        Msg(st, 404, "User not found", <<"getUser", "updateUser">>)
    ELSE
        LET st1 == update(st, "users", req.id, req.body) IN
        Reply(st1, 200, "one", WithoutPassword(st1.users[req.id]),
              <<"getUser", "updateUser">>)

\* The self check never firing.
deletesOwnAccountNever(uid, id) == FALSE

\* req.session.userId === userId
deletesOwnAccount(uid, id) == uid = id

OnDeleteUser(st, uid, req) ==
    IF ~isGlobalAdmin(st, uid) THEN
        Msg(st, 403, "Not authorized to delete users", <<"getUser">>)
    ELSE IF deletesOwnAccount(uid, req.id) THEN
        Msg(st, 400, "Cannot delete your own account", <<"getUser">>)
    ELSE IF ~has(st, "users", req.id) THEN
        Msg(st, 404, "User not found", <<"getUser", "deleteUser">>)
    ELSE Msg(delete(st, "users", req.id), 200, "User deleted successfully",
             <<"getUser", "deleteUser">>)

\* ------------------------------------------------------------ team routes

OnGetTeams(st, uid, req) ==
    Reply(st, 200, "list", Rows(st.teams, getTeamsByUser(st, uid)),
          <<"getTeamsByUser">>)

\* The creator enrolled with the default role.
creatorMembershipAsMember(teamId, uid) ==
    [teamId |-> teamId, userId |-> uid, role |-> "member"]

\* The membership POST /api/teams adds for the creator.
creatorMembership(teamId, uid) ==
    [teamId |-> teamId, userId |-> uid, role |-> "admin"]

OnPostTeams(st, uid, req) ==
    IF ~has(st, "users", uid) THEN
        Msg(st, 404, "User not found", <<"getUser">>)
    ELSE IF st.users[uid].role # "admin" THEN
        Msg(st, 403, "Only admin users can create teams", <<"getUser">>)
    ELSE
        LET st1 == create(st, "teams", Spread(req.body, [createdBy |-> uid]))
            teamId == createdId(st, "teams")
            st2 == create(st1, "members", creatorMembership(teamId, uid))
        IN Reply(st2, 201, "one", st2.teams[teamId],
                 <<"getUser", "createTeam", "addTeamMember">>)

OnGetTeam(st, uid, req) ==
    IF ~has(st, "teams", req.id) THEN
        Msg(st, 404, "Team not found", <<"getTeam">>)
    ELSE Reply(st, 200, "one", st.teams[req.id], <<"getTeam">>)

OnPutTeam(st, uid, req) ==
    IF ~has(st, "teams", req.id) THEN
        Msg(st, 404, "Team not found", <<"getTeam">>)
    ELSE IF ~isAdminMember(st, req.id, uid) THEN
        Msg(st, 403, "Not authorized to update team",
            <<"getTeam", "getTeamMembers">>)
    ELSE
        LET st1 == update(st, "teams", req.id, req.body) IN
        Reply(st1, 200, "one", st1.teams[req.id],
              <<"getTeam", "getTeamMembers", "updateTeam">>)

OnDeleteTeam(st, uid, req) ==
    IF ~has(st, "teams", req.id) THEN
        Msg(st, 404, "Team not found", <<"getTeam">>)
    ELSE IF ~isAdminMember(st, req.id, uid) THEN
        Msg(st, 403, "Not authorized to delete team",
            <<"getTeam", "getTeamMembers">>)
    ELSE Msg(delete(st, "teams", req.id), 200, "Team deleted successfully",
             <<"getTeam", "getTeamMembers", "deleteTeam">>)

\* ----------------------------------------------------- team member routes

OnGetTeamMembers(st, uid, req) ==
    IF ~has(st, "teams", req.id) THEN
        Msg(st, 404, "Team not found", <<"getTeam">>)
    ELSE IF ~isMember(st, req.id, uid) THEN
        Msg(st, 403, "Not authorized to view team members",
            <<"getTeam", "getTeamMembers">>)
    ELSE Reply(st, 200, "list", Rows(st.members, getTeamMembers(st, req.id)),
               <<"getTeam", "getTeamMembers">>)

OnGetCurrentMember(st, uid, req) ==
    IF ~has(st, "teams", req.id) THEN
        Msg(st, 404, "Team not found", <<"getTeam">>)
    ELSE IF ~isMember(st, req.id, uid) THEN
        Msg(st, 404, "User is not a member of this team",
            <<"getTeam", "getTeamMembers">>)
    ELSE Reply(st, 200, "one", membership(st, req.id, uid),
               <<"getTeam", "getTeamMembers">>)

\* The handler with the spread the other way round: the body's teamId, where
\* it carries one, wins over the path's.
OnPostTeamMembersBodyFirst(st, uid, req) ==
    IF ~has(st, "teams", req.id) THEN
        Msg(st, 404, "Team not found", <<"getTeam">>)
    ELSE IF ~isAdminMember(st, req.id, uid) THEN
        Msg(st, 403, "Not authorized to add team members",
            <<"getTeam", "getTeamMembers">>)
    ELSE
        LET st1 == create(st, "members",
                          SpreadKeeping(req.body, [teamId |-> req.id]))
        IN Reply(st1, 201, "one", st1.members[createdId(st, "members")],
                 <<"getTeam", "getTeamMembers", "addTeamMember">>)

OnPostTeamMembers(st, uid, req) ==
    IF ~has(st, "teams", req.id) THEN
        Msg(st, 404, "Team not found", <<"getTeam">>)
    ELSE IF ~isAdminMember(st, req.id, uid) THEN
        Msg(st, 403, "Not authorized to add team members",
            <<"getTeam", "getTeamMembers">>)
    ELSE
        LET st1 == create(st, "members",
                          Spread(req.body, [teamId |-> req.id]))
        IN Reply(st1, 201, "one", st1.members[createdId(st, "members")],
                 <<"getTeam", "getTeamMembers", "addTeamMember">>)

\* The check with the self clause for every user: any member may remove
\* any member.
mayRemoveMemberAny(st, teamId, uid, target) == isMember(st, teamId, uid)

\* The actor is an admin of the team or is removing themselves.
mayRemoveMember(st, teamId, uid, target) ==
    /\ isMember(st, teamId, uid)
    /\ ~(membership(st, teamId, uid).role # "admin" /\ uid # target)

\* req.id is :teamId, req.id2 is :userId.
OnDeleteTeamMember(st, uid, req) ==
    IF ~has(st, "teams", req.id) THEN
        Msg(st, 404, "Team not found", <<"getTeam">>)
    ELSE IF ~mayRemoveMember(st, req.id, uid, req.id2) THEN
        Msg(st, 403, "Not authorized to remove team member",
            <<"getTeam", "getTeamMembers">>)
    ELSE IF ~isMember(st, req.id, req.id2) THEN
        Msg(st, 404, "Team member not found",
            <<"getTeam", "getTeamMembers", "removeTeamMember">>)
    ELSE Msg(removeTeamMember(st, req.id, req.id2), 200,
             "Team member removed successfully",
             <<"getTeam", "getTeamMembers", "removeTeamMember">>)

\* --------------------------------------------------------- project routes

\* The list of the first team alone.
FlatFirst(st, teamIds) ==
    IF teamIds = {} THEN <<>>
    ELSE Rows(st.projects, getProjectsByTeam(st, Min(teamIds)))

\* projectsByTeam.flat(): the projects of each team in turn.
RECURSIVE Flat(_, _)
Flat(st, teamIds) ==
    IF teamIds = {} THEN <<>>
    ELSE LET t == Min(teamIds) IN
         Rows(st.projects, getProjectsByTeam(st, t))
             \o Flat(st, teamIds \ {t})

\* The query ?teamId= is req.body.teamId, 0 when absent.
OnGetProjects(st, uid, req) ==
    LET teamId == Field(req.body, "teamId", 0) IN
    IF teamId # 0 THEN
        IF ~has(st, "teams", teamId) THEN
            Msg(st, 404, "Team not found", <<"getTeam">>)
        ELSE IF ~isMember(st, teamId, uid) THEN
            Msg(st, 403, "Not authorized to view projects",
                <<"getTeam", "getTeamMembers">>)
        ELSE Reply(st, 200, "list",
                   Rows(st.projects, getProjectsByTeam(st, teamId)),
                   <<"getTeam", "getTeamMembers", "getProjectsByTeam">>)
    ELSE Reply(st, 200, "list", Flat(st, getTeamsByUser(st, uid)),
               <<"getTeamsByUser">>
                   \o [i \in 1..Cardinality(getTeamsByUser(st, uid)) |->
                          "getProjectsByTeam"])

OnPostProjects(st, uid, req) ==
    LET teamId == Field(req.body, "teamId", 0) IN
    IF ~has(st, "teams", teamId) THEN
        Msg(st, 404, "Team not found", <<"getTeam">>)
    ELSE IF ~isMember(st, teamId, uid) THEN
        Msg(st, 403, "Not authorized to create project",
            <<"getTeam", "getTeamMembers">>)
    ELSE
        LET st1 == create(st, "projects", req.body) IN
        Reply(st1, 201, "one", st1.projects[createdId(st, "projects")],
              <<"getTeam", "getTeamMembers", "createProject">>)

OnGetProject(st, uid, req) ==
    IF ~has(st, "projects", req.id) THEN
        Msg(st, 404, "Project not found", <<"getProject">>)
    ELSE IF ~isMember(st, st.projects[req.id].teamId, uid) THEN
        Msg(st, 403, "Not authorized to view project",
            <<"getProject", "getTeamMembers">>)
    ELSE Reply(st, 200, "one", st.projects[req.id],
               <<"getProject", "getTeamMembers">>)

OnPutProject(st, uid, req) ==
    IF ~has(st, "projects", req.id) THEN
        Msg(st, 404, "Project not found", <<"getProject">>)
    ELSE IF ~isAdminMember(st, st.projects[req.id].teamId, uid) THEN
        Msg(st, 403, "Not authorized to update project",
            <<"getProject", "getTeamMembers">>)
    ELSE
        LET st1 == update(st, "projects", req.id, req.body) IN
        Reply(st1, 200, "one", st1.projects[req.id],
              <<"getProject", "getTeamMembers", "updateProject">>)

OnDeleteProject(st, uid, req) ==
    IF ~has(st, "projects", req.id) THEN
        Msg(st, 404, "Project not found", <<"getProject">>)
    ELSE IF ~isAdminMember(st, st.projects[req.id].teamId, uid) THEN
        Msg(st, 403, "Not authorized to delete project",
            <<"getProject", "getTeamMembers">>)
    ELSE Msg(delete(st, "projects", req.id), 200,
             "Project deleted successfully",
             <<"getProject", "getTeamMembers", "deleteProject">>)

\* ------------------------------------------------------------ task routes

\* The team at the end of a project's chain.
teamOfProject(st, projectId) == st.projects[projectId].teamId

\* The assignee check passing for global admins too.
ownTasksOnlyUnlessAdmin(st, uid, assigneeId) ==
    assigneeId = uid \/ isGlobalAdmin(st, uid)

\* assigneeId === req.session.userId
ownTasksOnly(st, uid, assigneeId) == assigneeId = uid

\* The queries ?projectId= and ?assigneeId= are fields of req.body, 0 when
\* absent.
OnGetTasks(st, uid, req) ==
    LET projectId == Field(req.body, "projectId", 0)
        assigneeId == Field(req.body, "assigneeId", 0)
    IN
    IF projectId # 0 THEN
        IF ~has(st, "projects", projectId) THEN
            Msg(st, 404, "Project not found", <<"getProject">>)
        ELSE IF ~isMember(st, teamOfProject(st, projectId), uid) THEN
            Msg(st, 403, "Not authorized to view tasks",
                <<"getProject", "getTeamMembers">>)
        ELSE Reply(st, 200, "list",
                   Rows(st.tasks, getTasksByProject(st, projectId)),
                   <<"getProject", "getTeamMembers", "getTasksByProject">>)
    ELSE IF assigneeId # 0 THEN
        IF ~ownTasksOnly(st, uid, assigneeId) THEN
            Msg(st, 403, "Not authorized to view other users' tasks", <<>>)
        ELSE Reply(st, 200, "list",
                   Rows(st.tasks, getTasksByAssignee(st, assigneeId)),
                   <<"getTasksByAssignee">>)
    ELSE Reply(st, 200, "list", Rows(st.tasks, getTasksByAssignee(st, uid)),
               <<"getTasksByAssignee">>)

OnPostTasks(st, uid, req) ==
    LET projectId == Field(req.body, "projectId", 0) IN
    IF ~has(st, "projects", projectId) THEN
        Msg(st, 404, "Project not found", <<"getProject">>)
    ELSE IF ~isMember(st, teamOfProject(st, projectId), uid) THEN
        Msg(st, 403, "Not authorized to create task",
            <<"getProject", "getTeamMembers">>)
    ELSE
        LET st1 == create(st, "tasks", req.body) IN
        Reply(st1, 201, "one", st1.tasks[createdId(st, "tasks")],
              <<"getProject", "getTeamMembers", "createTask">>)

\* The checks the task routes share: the task, its project, the membership of
\* uid in the project's team; allowed is what the route does once they pass.
TaskChain(st, uid, taskId, denied, allowed) ==
    IF ~has(st, "tasks", taskId) THEN
        Msg(st, 404, "Task not found", <<"getTask">>)
    ELSE IF ~has(st, "projects", st.tasks[taskId].projectId) THEN
        Msg(st, 404, "Project not found", <<"getTask", "getProject">>)
    ELSE IF ~isMember(st, teamOfProject(st, st.tasks[taskId].projectId), uid)
    THEN Msg(st, 403, denied, <<"getTask", "getProject", "getTeamMembers">>)
    ELSE allowed

TaskCalls(last) == <<"getTask", "getProject", "getTeamMembers">> \o last

OnGetTask(st, uid, req) ==
    TaskChain(st, uid, req.id, "Not authorized to view task",
              Reply(st, 200, "one", st.tasks[req.id], TaskCalls(<<>>)))

OnPutTask(st, uid, req) ==
    TaskChain(st, uid, req.id, "Not authorized to update task",
              LET st1 == update(st, "tasks", req.id, req.body) IN
              Reply(st1, 200, "one", st1.tasks[req.id],
                    TaskCalls(<<"updateTask">>)))

OnPutTaskStatus(st, uid, req) ==
    TaskChain(st, uid, req.id, "Not authorized to update task status",
              LET st1 == update(st, "tasks", req.id,
                                [status |-> Field(req.body, "status", ""),
                                 order |-> Field(req.body, "order", 0)])
              IN Reply(st1, 200, "one", st1.tasks[req.id],
                       TaskCalls(<<"updateTaskStatus">>)))

OnDeleteTask(st, uid, req) ==
    TaskChain(st, uid, req.id, "Not authorized to delete task",
              Msg(delete(st, "tasks", req.id), 200,
                  "Task deleted successfully", TaskCalls(<<"deleteTask">>)))

\* --------------------------------------------------------- comment routes

OnGetComments(st, uid, req) ==
    TaskChain(st, uid, req.id, "Not authorized to view comments",
              Reply(st, 200, "list",
                    Rows(st.comments, getCommentsByTask(st, req.id)),
                    TaskCalls(<<"getCommentsByTask">>)))

OnPostComments(st, uid, req) ==
    TaskChain(st, uid, req.id, "Not authorized to add comment",
              LET st1 == create(st, "comments",
                                Spread(req.body,
                                       [taskId |-> req.id, userId |-> uid]))
                  comment == st1.comments[createdId(st, "comments")]
              IN
              IF ~has(st1, "users", uid) THEN
                  Msg(st1, 500, "Failed to get user",
                      TaskCalls(<<"createComment", "getUser">>))
              ELSE Reply(st1, 201, "one",
                         Spread(comment,
                                [user |-> WithoutPassword(st1.users[uid])]),
                         TaskCalls(<<"createComment", "getUser">>)))

OnDeleteComment(st, uid, req) ==
    IF ~has(st, "comments", req.id) THEN
        Msg(st, 404, "Comment not found", <<"getComment">>)
    ELSE
        LET comment == st.comments[req.id]
            done(calls) ==
                Msg(delete(st, "comments", req.id), 200,
                    "Comment deleted successfully",
                    calls \o <<"deleteComment">>)
        IN
        IF comment.userId # uid THEN
            IF ~has(st, "tasks", comment.taskId) THEN
                Msg(st, 404, "Task not found", <<"getComment", "getTask">>)
            ELSE IF ~has(st, "projects", st.tasks[comment.taskId].projectId)
            THEN Msg(st, 404, "Project not found",
                     <<"getComment", "getTask", "getProject">>)
            ELSE IF ~isAdminMember(
                        st,
                        teamOfProject(st, st.tasks[comment.taskId].projectId),
                        uid)
            THEN Msg(st, 403, "Not authorized to delete comment",
                     <<"getComment", "getTask", "getProject",
                       "getTeamMembers">>)
            ELSE done(<<"getComment", "getTask", "getProject",
                        "getTeamMembers">>)
        ELSE done(<<"getComment">>)

\* ------------------------------------------------------------ file routes

OnGetProjectFiles(st, uid, req) ==
    IF ~has(st, "projects", req.id) THEN
        Msg(st, 404, "Project not found", <<"getProject">>)
    ELSE IF ~isMember(st, teamOfProject(st, req.id), uid) THEN
        Msg(st, 403, "Not authorized to view files",
            <<"getProject", "getTeamMembers">>)
    ELSE Reply(st, 200, "list",
               Rows(st.files, getFilesByProject(st, req.id)),
               <<"getProject", "getTeamMembers", "getFilesByProject">>)

OnGetTaskFiles(st, uid, req) ==
    TaskChain(st, uid, req.id, "Not authorized to view files",
              Reply(st, 200, "list", Rows(st.files, getFilesByTask(st, req.id)),
                    TaskCalls(<<"getFilesByTask">>)))

\* insertFileSchema.safeParse runs in the handler, after the membership check.
OnPostFiles(st, uid, req) ==
    LET projectId == Field(req.body, "projectId", 0) IN
    IF ~has(st, "projects", projectId) THEN
        Msg(st, 404, "Project not found", <<"getProject">>)
    ELSE IF ~isMember(st, teamOfProject(st, projectId), uid) THEN
        Msg(st, 403, "Not authorized to upload file",
            <<"getProject", "getTeamMembers">>)
    ELSE IF ~req.valid THEN
        Msg(st, 400, "Validation error", <<"getProject", "getTeamMembers">>)
    ELSE
        LET st1 == create(st, "files",
                          Spread(req.body, [uploadedBy |-> uid]))
        IN Reply(st1, 201, "one", st1.files[createdId(st, "files")],
                 <<"getProject", "getTeamMembers", "createFile">>)

OnDeleteFile(st, uid, req) ==
    IF ~has(st, "files", req.id) THEN
        Msg(st, 404, "File not found", <<"getFile">>)
    ELSE IF ~has(st, "projects", st.files[req.id].projectId) THEN
        Msg(st, 404, "Project not found", <<"getFile", "getProject">>)
    ELSE
        LET teamId == teamOfProject(st, st.files[req.id].projectId) IN
        IF ~isMember(st, teamId, uid) THEN
            Msg(st, 403, "Not authorized to delete file",
                <<"getFile", "getProject", "getTeamMembers">>)
        ELSE IF st.files[req.id].uploadedBy # uid
                /\ membership(st, teamId, uid).role # "admin"
        THEN Msg(st, 403, "Not authorized to delete file",
                 <<"getFile", "getProject", "getTeamMembers">>)
        ELSE Msg(delete(st, "files", req.id), 200,
                 "File deleted successfully",
                 <<"getFile", "getProject", "getTeamMembers", "deleteFile">>)

\* --------------------------------------------------------- message routes

OnGetMessages(st, uid, req) ==
    IF ~has(st, "teams", req.id) THEN
        Msg(st, 404, "Team not found", <<"getTeam">>)
    ELSE IF ~isMember(st, req.id, uid) THEN
        Msg(st, 403, "Not authorized to view messages",
            <<"getTeam", "getTeamMembers">>)
    ELSE
        LET found == Rows(st.messages, getMessagesByTeam(st, req.id))
            calls == <<"getTeam", "getTeamMembers", "getMessagesByTeam">>
        IN
        IF \E i \in DOMAIN found : ~has(st, "users", found[i].userId)
        THEN Msg(st, 500, "Failed to get messages", calls)
        ELSE Reply(st, 200, "list",
                   [i \in DOMAIN found |->
                       Spread(found[i],
                              [user |-> WithoutPassword(
                                            st.users[found[i].userId])])],
                   calls)

OnPostMessages(st, uid, req) ==
    IF ~has(st, "teams", req.id) THEN
        Msg(st, 404, "Team not found", <<"getTeam">>)
    ELSE IF ~isMember(st, req.id, uid) THEN
        Msg(st, 403, "Not authorized to send message",
            <<"getTeam", "getTeamMembers">>)
    ELSE
        LET st1 == create(st, "messages",
                          Spread(req.body,
                                 [teamId |-> req.id, userId |-> uid]))
            message == st1.messages[createdId(st, "messages")]
            calls == <<"getTeam", "getTeamMembers", "createMessage",
                       "getUser">>
        IN
        IF ~has(st1, "users", uid) THEN
            Msg(st1, 500, "Failed to get user", calls)
        ELSE Reply(st1, 201, "one",
                   Spread(message,
                          [user |-> WithoutPassword(st1.users[uid])]),
                   calls)

OnDeleteMessage(st, uid, req) ==
    IF ~has(st, "messages", req.id) THEN
        Msg(st, 404, "Message not found", <<"getMessage">>)
    ELSE IF st.messages[req.id].userId # uid
            /\ ~isAdminMember(st, st.messages[req.id].teamId, uid)
    THEN Msg(st, 403, "Not authorized to delete message",
             <<"getMessage", "getTeamMembers">>)
    ELSE Msg(delete(st, "messages", req.id), 200,
             "Message deleted successfully",
             (IF st.messages[req.id].userId # uid
              THEN <<"getMessage", "getTeamMembers">>
              ELSE <<"getMessage">>) \o <<"deleteMessage">>)

\* ----------------------------------------------------------------- router

\* The routes that run validateBody(schema) between requireAuth and the
\* handler.
Validated ==
    {"POST /api/users", "POST /api/teams", "POST /api/teams/:id/members",
     "POST /api/projects", "POST /api/tasks", "POST /api/tasks/:taskId/comments",
     "POST /api/teams/:teamId/messages"}

\* The handler of the route, behind requireAuth.
Handler(st, uid, req) ==
    CASE req.ep = "GET /api/auth/me" -> OnGetMe(st, uid, req)
      [] req.ep = "GET /api/users" -> OnGetUsers(st, uid, req)
      [] req.ep = "POST /api/users" -> OnPostUsers(st, uid, req)
      [] req.ep = "GET /api/users/:id" -> OnGetUser(st, uid, req)
      [] req.ep = "PUT /api/users/:id" -> OnPutUser(st, uid, req)
      [] req.ep = "DELETE /api/users/:id" -> OnDeleteUser(st, uid, req)
      [] req.ep = "GET /api/teams" -> OnGetTeams(st, uid, req)
      [] req.ep = "POST /api/teams" -> OnPostTeams(st, uid, req)
      [] req.ep = "GET /api/teams/:id" -> OnGetTeam(st, uid, req)
      [] req.ep = "PUT /api/teams/:id" -> OnPutTeam(st, uid, req)
      [] req.ep = "DELETE /api/teams/:id" -> OnDeleteTeam(st, uid, req)
      [] req.ep = "GET /api/teams/:id/members" -> OnGetTeamMembers(st, uid, req)
      [] req.ep = "GET /api/teams/:id/members/current" ->
            OnGetCurrentMember(st, uid, req)
      [] req.ep = "POST /api/teams/:id/members" ->
            OnPostTeamMembers(st, uid, req)
      [] req.ep = "DELETE /api/teams/:teamId/members/:userId" ->
            OnDeleteTeamMember(st, uid, req)
      [] req.ep = "GET /api/projects" -> OnGetProjects(st, uid, req)
      [] req.ep = "POST /api/projects" -> OnPostProjects(st, uid, req)
      [] req.ep = "GET /api/projects/:id" -> OnGetProject(st, uid, req)
      [] req.ep = "PUT /api/projects/:id" -> OnPutProject(st, uid, req)
      [] req.ep = "DELETE /api/projects/:id" -> OnDeleteProject(st, uid, req)
      [] req.ep = "GET /api/tasks" -> OnGetTasks(st, uid, req)
      [] req.ep = "POST /api/tasks" -> OnPostTasks(st, uid, req)
      [] req.ep = "GET /api/tasks/:id" -> OnGetTask(st, uid, req)
      [] req.ep = "PUT /api/tasks/:id" -> OnPutTask(st, uid, req)
      [] req.ep = "PUT /api/tasks/:id/status" -> OnPutTaskStatus(st, uid, req)
      [] req.ep = "DELETE /api/tasks/:id" -> OnDeleteTask(st, uid, req)
      [] req.ep = "GET /api/tasks/:taskId/comments" ->
            OnGetComments(st, uid, req)
      [] req.ep = "POST /api/tasks/:taskId/comments" ->
            OnPostComments(st, uid, req)
      [] req.ep = "DELETE /api/comments/:id" -> OnDeleteComment(st, uid, req)
      [] req.ep = "GET /api/projects/:projectId/files" ->
            OnGetProjectFiles(st, uid, req)
      [] req.ep = "GET /api/tasks/:taskId/files" -> OnGetTaskFiles(st, uid, req)
      [] req.ep = "POST /api/files" -> OnPostFiles(st, uid, req)
      [] req.ep = "DELETE /api/files/:id" -> OnDeleteFile(st, uid, req)
      [] req.ep = "GET /api/teams/:teamId/messages" ->
            OnGetMessages(st, uid, req)
      [] req.ep = "POST /api/teams/:teamId/messages" ->
            OnPostMessages(st, uid, req)
      [] req.ep = "DELETE /api/messages/:id" -> OnDeleteMessage(st, uid, req)

\* What the application answers to req in state st.
Handle(st, req) ==
    IF req.ep = "POST /api/auth/login" THEN OnLogin(st, req)
    ELSE IF req.ep = "POST /api/auth/logout" THEN OnLogout(st, req)
    ELSE Route(st, req, req.ep \in Validated,
               Handler(st, st.session[req.sid], req))

\* The store calls of the handlers that write.
WriteCalls ==
    {"createUser", "updateUser", "deleteUser", "createTeam", "updateTeam",
     "deleteTeam", "addTeamMember", "removeTeamMember", "createProject",
     "updateProject", "deleteProject", "createTask", "updateTask",
     "updateTaskStatus", "deleteTask", "createComment", "deleteComment",
     "createFile", "deleteFile", "createMessage", "deleteMessage"}

\* The positions of the writes among the calls.
Writes(calls) == {i \in DOMAIN calls : calls[i] \in WriteCalls}

\* The store after calls 1..k-1 of the request, call k being the one that
\* throws: the writes before it are applied, the others are not.  Only
\* POST /api/teams has a write (createTeam) before another (addTeamMember).
StoreBeforeCall(st, req, r, k) ==
    IF \A i \in Writes(r.calls) : i < k THEN r.st
    ELSE IF \A i \in Writes(r.calls) : i >= k THEN st
    ELSE create(st, "teams",
                Spread(req.body, [createdBy |-> st.session[req.sid]]))

\* A handler that goes on to its answer although call k threw.
ThrownSwallowed(st, req, k) ==
    LET r == Handle(st, req) IN
    [st |-> r.st, status |-> r.status, kind |-> r.kind, val |-> r.val,
     calls |-> r.calls, thrown |-> k]

\* catch (error) { res.status(500).json({ message: ... }) }: store call k
\* of the request throws (for logout: session.destroy reports an error).
\* The message differs from route to route and may be the error's own.
Thrown(st, req, k) ==
    LET r == Handle(st, req) IN
    IF req.ep = "POST /api/auth/logout" THEN
        [st |-> st, status |-> 500, kind |-> "message",
         val |-> "Failed to logout", calls |-> <<>>, thrown |-> k]
    ELSE
        [st |-> StoreBeforeCall(st, req, r, k), status |-> 500,
         kind |-> "message", val |-> "caught error",
         calls |-> SubSeq(r.calls, 1, k), thrown |-> k]

\* The calls of the request that may throw.
FailPoints(st, req) ==
    IF req.ep = "POST /api/auth/logout" THEN {1}
    ELSE DOMAIN Handle(st, req).calls

\* What may become of a request: its handler's answer and, where store
\* calls may throw, the answer of its catch block for each call.
Outcomes(st, req, mayThrow) ==
    {Spread(Handle(st, req), [thrown |-> 0])}
    \cup (IF mayThrow THEN {Thrown(st, req, k) : k \in FailPoints(st, req)}
         ELSE {})

\* The store and the session become those of st.
Becomes(st) ==
    /\ users' = st.users
    /\ teams' = st.teams
    /\ members' = st.members
    /\ projects' = st.projects
    /\ tasks' = st.tasks
    /\ comments' = st.comments
    /\ files' = st.files
    /\ messages' = st.messages
    /\ nextId' = st.nextId
    /\ session' = st.session

\* Outcome r answers request req: the store and the session as the handler
\* leaves them, the response recorded with the store it was handled in.
Answer(req, r) ==
    /\ Becomes(r.st)
    /\ before' = State
    /\ resp' = [req |-> req, actor |-> session[req.sid], status |-> r.status,
                kind |-> r.kind, val |-> r.val, calls |-> r.calls,
                thrown |-> r.thrown]

\* One request handled in one step.
Serve(req) ==
    /\ \E r \in Outcomes(State, req, faulty) : Answer(req, r)
    /\ UNCHANGED <<inflight, faulty, conv>>

\* ----------------------------------------------------------------- clients
\* The provisioning scripts.  Session 1 logs in with the bootstrap
\* credentials, creates users 2 (global role r2) and 3, team 1, the
\* memberships of 2 (team role m2, or none) and 3, project 1 and task 1; the
\* author logs in and posts comment 1, file 1 and message 1; then the author
\* may leave the team, session 2 logs in as the actor (0: nobody), and
\* session 1 may delete the actor's user record.

Login(sid, username, password) ==
    Rq("POST /api/auth/login", sid, 0, 0,
       [username |-> username, password |-> password])

UserName(uid) == IF uid = 1 THEN "admin" ELSE IF uid = 2 THEN "u2" ELSE "u3"

UserPassword(uid) == IF uid = 1 THEN BootstrapPassword ELSE "pw"

NewUser(uid, role) ==
    [username |-> UserName(uid), password |-> UserPassword(uid),
     email |-> UserName(uid), role |-> role]

Script(p) ==
    <<Login(1, "admin", BootstrapPassword),
      Rq("POST /api/users", 1, 0, 0, NewUser(2, p.r2)),
      Rq("POST /api/users", 1, 0, 0, NewUser(3, "member")),
      Rq("POST /api/teams", 1, 0, 0, [name |-> "Eng"])>>
    \o (IF p.m2 = "none" THEN <<>>
        ELSE <<Rq("POST /api/teams/:id/members", 1, 1, 0,
                  [userId |-> 2, role |-> p.m2])>>)
    \o <<Rq("POST /api/teams/:id/members", 1, 1, 0,
            [userId |-> 3, role |-> "member"]),
         Rq("POST /api/projects", 1, 0, 0, [name |-> "P", teamId |-> 1]),
         Rq("POST /api/tasks", 1, 0, 0,
            [projectId |-> 1, assigneeId |-> p.author]),
         Login(2, UserName(p.author), UserPassword(p.author)),
         Rq("POST /api/tasks/:taskId/comments", 2, 1, 0, [content |-> "c"]),
         Rq("POST /api/files", 2, 0, 0, [projectId |-> 1, taskId |-> 1]),
         Rq("POST /api/teams/:teamId/messages", 2, 1, 0, [content |-> "m"])>>
    \o (IF p.leaves
        THEN <<Rq("DELETE /api/teams/:teamId/members/:userId", 1, 1, p.author,
                  NoBody)>>
        ELSE <<>>)
    \o (IF p.actor = 0 THEN <<Rq("POST /api/auth/logout", 2, 0, 0, NoBody)>>
        ELSE <<Login(2, UserName(p.actor), UserPassword(p.actor))>>)
    \o (IF p.gone
        THEN <<Rq("DELETE /api/users/:id", 1, p.actor, 0, NoBody)>>
        ELSE <<>>)

ScriptParams ==
    [r2 : {"admin", "member"}, m2 : {"none", "member", "admin"},
     author : {1, 2, 3}, leaves : BOOLEAN, actor : {0, 1, 2, 3},
     gone : BOOLEAN]

\* The scripts that end with session 1 deleting team 1, project 1 or task 1
\* while the records below it stay: user 3 is a member and the author, user 2
\* is not a member.
UnlinkParams ==
    [r2 : {"member"}, m2 : {"none"}, author : {3}, leaves : {FALSE},
     actor : {1, 2, 3}, gone : {FALSE}]

Unlink(t) ==
    IF t = "teams" THEN Rq("DELETE /api/teams/:id", 1, 1, 0, NoBody)
    ELSE IF t = "projects" THEN Rq("DELETE /api/projects/:id", 1, 1, 0, NoBody)
    ELSE Rq("DELETE /api/tasks/:id", 1, 1, 0, NoBody)

UnlinkingScripts ==
    {Script(p) \o <<Unlink(t)>> :
        p \in UnlinkParams, t \in {"teams", "projects", "tasks"}}

\* The scripts that end with the admin changing the stored password of
\* user 1 (the admin's own) or of user 2.
RekeyingScripts ==
    {Script([r2 |-> "member", m2 |-> "none", author |-> 3, leaves |-> FALSE,
             actor |-> 2, gone |-> FALSE])
        \o <<Rq("PUT /api/users/:id", 1, u, 0, [password |-> "new"])>> :
        u \in {1, 2}}

\* The scripts that go on with a second team: session 1 creates team 2 (its
\* user the admin member), adds user 2 to it when asked, and creates
\* project 2 in it with task 2 assigned to user 3, who is no member of it.
SecondTeam(joins) ==
    <<Rq("POST /api/teams", 1, 0, 0, [name |-> "Ops"])>>
    \o (IF joins THEN <<Rq("POST /api/teams/:id/members", 1, 2, 0,
                           [userId |-> 2, role |-> "member"])>>
        ELSE <<>>)
    \o <<Rq("POST /api/projects", 1, 0, 0, [name |-> "P2", teamId |-> 2]),
         Rq("POST /api/tasks", 1, 0, 0, [projectId |-> 2, assigneeId |-> 3])>>

TwoTeamScripts ==
    {Script([r2 |-> "member", m2 |-> "none", author |-> 3, leaves |-> FALSE,
             actor |-> a, gone |-> FALSE]) \o SecondTeam(joins) :
        a \in {1, 2, 3}, joins \in BOOLEAN}

\* The scripts with two teams in which user 2 is an admin of team 1 and, in
\* team 2, a member without the admin role or no member.
CrossTeamScripts ==
    {Script([r2 |-> "member", m2 |-> "admin", author |-> 3, leaves |-> FALSE,
             actor |-> 2, gone |-> FALSE]) \o SecondTeam(joins) :
        joins \in BOOLEAN}

\* The scripts that end with user 1, the only admin of team 1, removing
\* their own membership.
AdminlessScripts ==
    {Script([r2 |-> "member", m2 |-> m, author |-> 3, leaves |-> FALSE,
             actor |-> a, gone |-> FALSE])
        \o <<Rq("DELETE /api/teams/:teamId/members/:userId", 1, 1, 1, NoBody)>> :
        m \in {"none", "member"}, a \in {1, 2, 3}}

\* No script and the scripts above; a script deletes the actor's record only
\* when there is an actor other than session 1's user and the author has
\* not left, and user 2 has the global role admin only when it is the actor.
Scripts ==
    {<<>>}
    \cup {Script(p) : p \in {q \in ScriptParams :
                                /\ q.gone => (q.actor \in {2, 3} /\ ~q.leaves)
                                /\ q.r2 = "admin" => q.actor = 2}}
    \cup UnlinkingScripts
    \cup RekeyingScripts
    \cup TwoTeamScripts
    \cup AdminlessScripts
    \cup CrossTeamScripts

\* The ids and bodies the clients send once the script is done: the rows the
\* scripts create and one id past them.
UserIds == 1..4
TeamIds == 1..2
ProjectIds == 1..2
TaskIds == 1..2
LeafIds == 1..2

LoginBodies ==
    {[username |-> u, password |-> pw] :
        u \in {"admin", "u2", "u3"}, pw \in {BootstrapPassword, "pw"}}
    \cup {[username |-> "ghost", password |-> "pw"]}

UserBodies ==
    {[username |-> "u4", password |-> "pw", email |-> "u4", role |-> "admin"],
     [username |-> "u4", password |-> "pw", email |-> "u4"],
     [username |-> "u2", password |-> "pw", email |-> "u4"],
     [username |-> "u4", password |-> "pw", email |-> "u2"]}

UserUpdates ==
    {[role |-> "admin"], [role |-> "member"], [role |-> ""],
     [password |-> "new"], [username |-> "u2"], [email |-> "u3"]}

\* Bodies without a teamId and with one of the client's choosing.
MemberBodies ==
    [userId : {2, 3}, role : {"admin", "member"}]
    \cup {[userId |-> 3, role |-> "admin", teamId |-> t] : t \in 1..2}

TaskQueries == [projectId : {0} \cup ProjectIds, assigneeId : 0..3]

\* Bodies with and without an author or owner field of the client's choosing.
TeamBodies == {[name |-> "Ops"], [name |-> "Ops", createdBy |-> 1]}

TeamUpdates == {[name |-> "Ops"], [createdBy |-> 2]}

ProjectUpdates == {[name |-> "Q"], [teamId |-> 2]}

TaskUpdates == {[status |-> "doing"], [projectId |-> 2]}

StatusUpdates ==
    {[status |-> "done", order |-> 1],
     [status |-> "done", order |-> 1, projectId |-> 2]}

CommentBodies == {[content |-> "d"], [content |-> "d", userId |-> 1]}

FileBodies ==
    {[projectId |-> p, taskId |-> 1] : p \in ProjectIds}
    \cup {[projectId |-> 1, taskId |-> 1, uploadedBy |-> 1]}

MessageBodies == {[content |-> "n"], [content |-> "n", userId |-> 1]}

\* ----------------------------------------------------------------- actions

InitResp ==
    [req |-> Rq("", 1, 0, 0, NoBody), actor |-> 0, status |-> 0,
     kind |-> "message", val |-> "", calls |-> <<>>, thrown |-> 0]

\* ------------------------------------------------ convertDatesToObjects
\* A JSON value or a Date: its kind and, as a string, what it holds.
Str(v) == [type |-> "string", v |-> v]

Values ==
    {Str("2024-01-31"), Str("soon"), Str(""),
     [type |-> "number", v |-> "7"], [type |-> "null", v |-> ""]}

\* The strings Date can parse.
Parses(v) == v = "2024-01-31"

\* new Date(v): the date, or the Invalid Date object when v does not parse;
\* the constructor does not throw.
NewDate(v) ==
    [type |-> "date", v |-> IF Parses(v) THEN v ELSE "Invalid Date"]

\* newBody[key] && typeof newBody[key] === 'string'
NonEmptyString(x) == x.type = "string" /\ x.v # ""

DateKeys == {"startDate", "dueDate", "createdAt", "updatedAt"}

\* The copy of the body with the date fields converted.
convertDatesToObjects(body) ==
    [k \in DOMAIN body |->
        IF k \in DateKeys /\ NonEmptyString(body[k]) THEN NewDate(body[k].v)
        ELSE body[k]]

\* The bodies converted: any values under some of three keys, two of them
\* date fields.
ConvKeys == {"startDate", "updatedAt", "name"}

ConvBodies == UNION {[ks -> Values] : ks \in SUBSET ConvKeys}

\* No body has been converted.
NoConv == [body |-> <<>>, out |-> <<>>, done |-> FALSE]

\* No request is being handled call by call on the session.
Idle ==
    [phase |-> "idle", req |-> Rq("", 1, 0, 0, NoBody), view |-> EmptyState,
     done |-> 0]

\* The empty store, a provisioning script of the set, whether store calls
\* of the clients' requests may throw, and a body to convert, if any.
Start(scripts, mayThrow, convs) ==
    /\ users = EmptyState.users
    /\ teams = EmptyState.teams
    /\ members = EmptyState.members
    /\ projects = EmptyState.projects
    /\ tasks = EmptyState.tasks
    /\ comments = EmptyState.comments
    /\ files = EmptyState.files
    /\ messages = EmptyState.messages
    /\ nextId = EmptyState.nextId
    /\ session = EmptyState.session
    /\ before = EmptyState
    /\ resp = InitResp
    /\ script \in scripts
    /\ steps = 0
    /\ inflight = [s \in Sessions |-> Idle]
    /\ faulty = mayThrow
    /\ conv \in convs

Init == Start(Scripts, FALSE, {NoConv})

\* The next request of the provisioning script.
Provision ==
    /\ script # <<>>
    /\ \E r \in Outcomes(State, Head(script), FALSE) : Answer(Head(script), r)
    /\ script' = Tail(script)
    /\ UNCHANGED <<steps, inflight, faulty, conv>>

\* The script is done and the clients may send one more request.
Ready ==
    /\ script = <<>>
    /\ steps < MaxSteps
    /\ steps' = steps + 1
    /\ UNCHANGED script

PostLogin == \E s \in Clients, b \in LoginBodies :
    Ready /\ Serve(Rq("POST /api/auth/login", s, 0, 0, b))

PostLogout == \E s \in Clients :
    Ready /\ Serve(Rq("POST /api/auth/logout", s, 0, 0, NoBody))

GetMe == \E s \in Clients : Ready /\ Serve(Rq("GET /api/auth/me", s, 0, 0, NoBody))

GetUsers == \E s \in Clients : Ready /\ Serve(Rq("GET /api/users", s, 0, 0, NoBody))

PostUsers == \E s \in Clients, b \in UserBodies, v \in BOOLEAN :
    Ready /\ Serve([Rq("POST /api/users", s, 0, 0, b) EXCEPT !.valid = v])

GetUser == \E s \in Clients, id \in UserIds :
    Ready /\ Serve(Rq("GET /api/users/:id", s, id, 0, NoBody))

PutUser == \E s \in Clients, id \in UserIds, b \in UserUpdates :
    Ready /\ Serve(Rq("PUT /api/users/:id", s, id, 0, b))

DeleteUser == \E s \in Clients, id \in UserIds :
    Ready /\ Serve(Rq("DELETE /api/users/:id", s, id, 0, NoBody))

GetTeams == \E s \in Clients : Ready /\ Serve(Rq("GET /api/teams", s, 0, 0, NoBody))

PostTeams == \E s \in Clients, b \in TeamBodies, v \in BOOLEAN :
    Ready /\ Serve([Rq("POST /api/teams", s, 0, 0, b) EXCEPT !.valid = v])

GetTeam == \E s \in Clients, id \in TeamIds :
    Ready /\ Serve(Rq("GET /api/teams/:id", s, id, 0, NoBody))

PutTeam == \E s \in Clients, id \in TeamIds, b \in TeamUpdates :
    Ready /\ Serve(Rq("PUT /api/teams/:id", s, id, 0, b))

DeleteTeam == \E s \in Clients, id \in TeamIds :
    Ready /\ Serve(Rq("DELETE /api/teams/:id", s, id, 0, NoBody))

GetTeamMembers == \E s \in Clients, id \in TeamIds :
    Ready /\ Serve(Rq("GET /api/teams/:id/members", s, id, 0, NoBody))

GetCurrentMember == \E s \in Clients, id \in TeamIds :
    Ready /\ Serve(Rq("GET /api/teams/:id/members/current", s, id, 0, NoBody))

PostTeamMembers ==
    \E s \in Clients, id \in TeamIds, b \in MemberBodies, v \in BOOLEAN :
        Ready /\ Serve([Rq("POST /api/teams/:id/members", s, id, 0, b)
                 EXCEPT !.valid = v])

DeleteTeamMember == \E s \in Clients, id \in TeamIds, uid \in UserIds :
    Ready /\ Serve(Rq("DELETE /api/teams/:teamId/members/:userId", s, id, uid, NoBody))

GetProjects == \E s \in Clients, t \in {0} \cup TeamIds :
    Ready /\ Serve(Rq("GET /api/projects", s, 0, 0, [teamId |-> t]))

PostProjects == \E s \in Clients, t \in TeamIds, v \in BOOLEAN :
    Ready /\ Serve([Rq("POST /api/projects", s, 0, 0, [name |-> "Q", teamId |-> t])
             EXCEPT !.valid = v])

GetProject == \E s \in Clients, id \in ProjectIds :
    Ready /\ Serve(Rq("GET /api/projects/:id", s, id, 0, NoBody))

PutProject == \E s \in Clients, id \in ProjectIds, b \in ProjectUpdates :
    Ready /\ Serve(Rq("PUT /api/projects/:id", s, id, 0, b))

DeleteProject == \E s \in Clients, id \in ProjectIds :
    Ready /\ Serve(Rq("DELETE /api/projects/:id", s, id, 0, NoBody))

GetTasks == \E s \in Clients, q \in TaskQueries :
    Ready /\ Serve(Rq("GET /api/tasks", s, 0, 0, q))

PostTasks == \E s \in Clients, p \in ProjectIds, v \in BOOLEAN :
    Ready /\ Serve([Rq("POST /api/tasks", s, 0, 0, [projectId |-> p, assigneeId |-> 2])
             EXCEPT !.valid = v])

GetTask == \E s \in Clients, id \in TaskIds :
    Ready /\ Serve(Rq("GET /api/tasks/:id", s, id, 0, NoBody))

PutTask == \E s \in Clients, id \in TaskIds, b \in TaskUpdates :
    Ready /\ Serve(Rq("PUT /api/tasks/:id", s, id, 0, b))

PutTaskStatus == \E s \in Clients, id \in TaskIds, b \in StatusUpdates :
    Ready /\ Serve(Rq("PUT /api/tasks/:id/status", s, id, 0, b))

DeleteTask == \E s \in Clients, id \in TaskIds :
    Ready /\ Serve(Rq("DELETE /api/tasks/:id", s, id, 0, NoBody))

GetComments == \E s \in Clients, id \in TaskIds :
    Ready /\ Serve(Rq("GET /api/tasks/:taskId/comments", s, id, 0, NoBody))

PostComments ==
    \E s \in Clients, id \in TaskIds, b \in CommentBodies, v \in BOOLEAN :
        Ready /\ Serve([Rq("POST /api/tasks/:taskId/comments", s, id, 0, b)
                 EXCEPT !.valid = v])

DeleteComment == \E s \in Clients, id \in LeafIds :
    Ready /\ Serve(Rq("DELETE /api/comments/:id", s, id, 0, NoBody))

GetProjectFiles == \E s \in Clients, id \in ProjectIds :
    Ready /\ Serve(Rq("GET /api/projects/:projectId/files", s, id, 0, NoBody))

GetTaskFiles == \E s \in Clients, id \in TaskIds :
    Ready /\ Serve(Rq("GET /api/tasks/:taskId/files", s, id, 0, NoBody))

PostFiles == \E s \in Clients, b \in FileBodies, v \in BOOLEAN :
    Ready /\ Serve([Rq("POST /api/files", s, 0, 0, b) EXCEPT !.valid = v])

DeleteFile == \E s \in Clients, id \in LeafIds :
    Ready /\ Serve(Rq("DELETE /api/files/:id", s, id, 0, NoBody))

GetMessages == \E s \in Clients, id \in TeamIds :
    Ready /\ Serve(Rq("GET /api/teams/:teamId/messages", s, id, 0, NoBody))

PostMessages ==
    \E s \in Clients, id \in TeamIds, b \in MessageBodies, v \in BOOLEAN :
        Ready /\ Serve([Rq("POST /api/teams/:teamId/messages", s, id, 0, b)
                 EXCEPT !.valid = v])

DeleteMessage == \E s \in Clients, id \in LeafIds :
    Ready /\ Serve(Rq("DELETE /api/messages/:id", s, id, 0, NoBody))

Next ==
    \/ Provision
    \/ PostLogin \/ PostLogout \/ GetMe
    \/ GetUsers \/ PostUsers \/ GetUser \/ PutUser \/ DeleteUser
    \/ GetTeams \/ PostTeams \/ GetTeam \/ PutTeam \/ DeleteTeam
    \/ GetTeamMembers \/ GetCurrentMember \/ PostTeamMembers
    \/ DeleteTeamMember
    \/ GetProjects \/ PostProjects \/ GetProject \/ PutProject
    \/ DeleteProject
    \/ GetTasks \/ PostTasks \/ GetTask \/ PutTask \/ PutTaskStatus
    \/ DeleteTask
    \/ GetComments \/ PostComments \/ DeleteComment
    \/ GetProjectFiles \/ GetTaskFiles \/ PostFiles \/ DeleteFile
    \/ GetMessages \/ PostMessages \/ DeleteMessage

Spec == Init /\ [][Next]_vars

\* The scripts in which nobody leaves and no user is deleted.
PlainScripts ==
    {<<>>}
    \cup {Script([r2 |-> "member", m2 |-> m, author |-> 3, leaves |-> FALSE,
                  actor |-> a, gone |-> FALSE]) :
            m \in {"none", "member", "admin"}, a \in {0, 1, 2, 3}}

\* The same clients, with any store call of their requests free to throw.
InitFaulty == Start(PlainScripts, TRUE, {NoConv})

SpecFaulty == InitFaulty /\ [][Next]_vars

\* convertDatesToObjects applied to a body.
Convert ==
    /\ ~conv.done
    /\ conv' = [conv EXCEPT !.out = convertDatesToObjects(conv.body),
                            !.done = TRUE]
    /\ UNCHANGED <<users, teams, members, projects, tasks, comments, files,
                   messages, nextId, session, resp, before, script, steps,
                   inflight, faulty>>

InitDates ==
    Start({<<>>}, FALSE, {[NoConv EXCEPT !.body = b] : b \in ConvBodies})

SpecDates == InitDates /\ [][Convert]_vars

\* ------------------------------------------------ requests call by call
\* Two requests, one on each session, handled one store call at a time:
\* every await of a handler is a point where the other request's calls may
\* run.  A handler keeps what its lookups returned (its view) and decides on
\* that; its write goes to the store as it is when the write runs.

\* Session 1 is the team's admin (user 1), session 2 is user 2, a member
\* or an admin of team 1.
RaceScripts ==
    {Script([r2 |-> "member", m2 |-> m, author |-> 3, leaves |-> FALSE,
             actor |-> 2, gone |-> FALSE]) : m \in {"member", "admin"}}

\* The team-scoped mutations the two sessions send.
RaceRequests(s) ==
    {Rq("PUT /api/projects/:id", s, 1, 0, [name |-> "Q"]),
     Rq("DELETE /api/tasks/:id", s, 1, 0, NoBody),
     Rq("POST /api/teams/:id/members", s, 1, 0,
        [userId |-> 3, role |-> "member"])}
    \cup {Rq("DELETE /api/teams/:teamId/members/:userId", s, 1, u, NoBody) :
            u \in {1, 2}}

\* The table a lookup reads.
TableOf(call) ==
    CASE call = "getTeam" -> "teams"
      [] call = "getTeamMembers" -> "members"
      [] call = "getProject" -> "projects"
      [] call = "getTask" -> "tasks"

\* The handler's write, run on the store as it is now, and the answer that
\* follows it; calls are the calls of the request, the write included.
WriteNow(st, req, calls) ==
    CASE req.ep = "PUT /api/projects/:id" ->
            IF has(st, "projects", req.id) THEN
                LET st1 == update(st, "projects", req.id, req.body) IN
                Reply(st1, 200, "one", st1.projects[req.id], calls)
            ELSE Reply(st, 200, "one", NoBody, calls)
      [] req.ep = "DELETE /api/tasks/:id" ->
            Msg(IF has(st, "tasks", req.id) THEN delete(st, "tasks", req.id)
                ELSE st,
                200, "Task deleted successfully", calls)
      [] req.ep = "POST /api/teams/:id/members" ->
            LET st1 == create(st, "members",
                              Spread(req.body, [teamId |-> req.id]))
            IN Reply(st1, 201, "one", st1.members[createdId(st, "members")],
                     calls)
      [] req.ep = "DELETE /api/teams/:teamId/members/:userId" ->
            IF ~isMember(st, req.id, req.id2) THEN
                Msg(st, 404, "Team member not found", calls)
            ELSE Msg(removeTeamMember(st, req.id, req.id2), 200,
                     "Team member removed successfully", calls)

\* The response of a request handled call by call.
Sent(req, r) ==
    [req |-> req, actor |-> inflight[req.sid].view.session[req.sid],
     status |-> r.status, kind |-> r.kind, val |-> r.val, calls |-> r.calls,
     thrown |-> 0]

\* A request with a valid body arrives on a session that holds a userId
\* and has sent none yet: requireAuth and validateBody pass and the handler
\* starts, with nothing looked up.
Begin ==
    \E s \in Sessions : \E req \in RaceRequests(s) :
        /\ script = <<>>
        /\ session[s] # 0
        /\ inflight[s].phase = "idle"
        /\ inflight' = [inflight EXCEPT ![s] =
                [phase |-> "running", req |-> req, view |-> State,
                 done |-> 0]]
        /\ UNCHANGED <<users, teams, members, projects, tasks, comments,
                       files, messages, nextId, session, resp, before,
                       script, steps, faulty, conv>>

\* The next call of a running handler is a lookup: the view takes the
\* table as it is stored now, and the handler answers if a check on what it
\* has looked up so far ends it.
Lookup ==
    \E s \in Sessions :
        LET job == inflight[s]
            next == Handle(job.view, job.req).calls[job.done + 1]
            view == [job.view EXCEPT ![TableOf(next)] = State[TableOf(next)]]
            r == Handle(view, job.req)
        IN
        /\ job.phase = "running"
        /\ next \notin WriteCalls
        /\ IF Len(r.calls) <= job.done + 1 THEN
                /\ inflight' = [inflight EXCEPT ![s] =
                        [job EXCEPT !.phase = "done", !.view = view,
                                    !.done = job.done + 1]]
                /\ resp' = Sent(job.req, r)
                /\ before' = State
           ELSE
                /\ inflight' = [inflight EXCEPT ![s] =
                        [job EXCEPT !.view = view, !.done = job.done + 1]]
                /\ UNCHANGED <<resp, before>>
        /\ UNCHANGED <<users, teams, members, projects, tasks, comments,
                       files, messages, nextId, session, script, steps,
                       faulty, conv>>

\* The next call of a running handler is its write: it runs on the store
\* as it is now, whatever the view holds, and the handler answers.
Write ==
    \E s \in Sessions :
        LET job == inflight[s]
            calls == Handle(job.view, job.req).calls
        IN
        /\ job.phase = "running"
        /\ calls[job.done + 1] \in WriteCalls
        /\ \E r \in {WriteNow(State, job.req, calls)} :
                /\ Becomes(r.st)
                /\ resp' = Sent(job.req, r)
        /\ before' = State
        /\ inflight' = [inflight EXCEPT ![s] =
                [job EXCEPT !.phase = "done", !.done = job.done + 1]]
        /\ UNCHANGED <<script, steps, faulty, conv>>

NextRace == Provision \/ Begin \/ Lookup \/ Write

InitRace == Start(RaceScripts, FALSE, {NoConv})

SpecRace == InitRace /\ [][NextRace]_vars

\* ------------------------------------------------------------ properties
\* The last request, its actor (the userId its session held when it
\* arrived), and what it changed.

Ep == resp.req.ep

Answered == Ep # ""

Unchanged == State = before

StoreUnchanged == StoreOf(State) = StoreOf(before)

\* The team at the end of project p's chain in st, 0 when a link is missing.
TeamOfProject(st, p) ==
    IF has(st, "projects", p) /\ has(st, "teams", st.projects[p].teamId)
    THEN st.projects[p].teamId ELSE 0

TeamOfTask(st, k) ==
    IF has(st, "tasks", k) THEN TeamOfProject(st, st.tasks[k].projectId)
    ELSE 0

TeamOfTeam(st, t) == IF has(st, "teams", t) THEN t ELSE 0

TeamRoutes ==
    {"GET /api/teams/:id", "PUT /api/teams/:id", "DELETE /api/teams/:id"}

MemberRoutes ==
    {"GET /api/teams/:id/members", "GET /api/teams/:id/members/current",
     "POST /api/teams/:id/members",
     "DELETE /api/teams/:teamId/members/:userId"}

MessageRoutes ==
    {"GET /api/teams/:teamId/messages", "POST /api/teams/:teamId/messages"}

ProjectRoutes ==
    {"GET /api/projects/:id", "PUT /api/projects/:id",
     "DELETE /api/projects/:id", "GET /api/projects/:projectId/files"}

TaskRoutes ==
    {"GET /api/tasks/:id", "PUT /api/tasks/:id", "PUT /api/tasks/:id/status",
     "DELETE /api/tasks/:id", "GET /api/tasks/:taskId/comments",
     "POST /api/tasks/:taskId/comments", "GET /api/tasks/:taskId/files"}

\* The team that owns what req reads or writes in st: the team itself, or the
\* team at the end of the chain of the project, task, comment, file or
\* message.  0 when the request names no team or a link of the chain is
\* missing.
OwningTeam(st, req) ==
    LET ep == req.ep IN
    IF ep \in TeamRoutes \cup MemberRoutes \cup MessageRoutes THEN
        TeamOfTeam(st, req.id)
    ELSE IF ep \in {"GET /api/projects", "POST /api/projects"} THEN
        TeamOfTeam(st, Field(req.body, "teamId", 0))
    ELSE IF ep \in ProjectRoutes THEN TeamOfProject(st, req.id)
    ELSE IF ep \in {"GET /api/tasks", "POST /api/tasks", "POST /api/files"}
    THEN TeamOfProject(st, Field(req.body, "projectId", 0))
    ELSE IF ep \in TaskRoutes THEN TeamOfTask(st, req.id)
    ELSE IF ep = "DELETE /api/comments/:id" THEN
        IF has(st, "comments", req.id)
        THEN TeamOfTask(st, st.comments[req.id].taskId) ELSE 0
    ELSE IF ep = "DELETE /api/files/:id" THEN
        IF has(st, "files", req.id)
        THEN TeamOfProject(st, st.files[req.id].projectId) ELSE 0
    ELSE IF ep = "DELETE /api/messages/:id" THEN
        IF has(st, "messages", req.id)
        THEN TeamOfTeam(st, st.messages[req.id].teamId) ELSE 0
    ELSE 0

\* The team the last request was about, as the request found the store.
Team == OwningTeam(before, resp.req)

\* The actor's team role as the request found it: "none" without membership.
RoleIn(st, teamId, uid) ==
    IF isMember(st, teamId, uid) THEN membership(st, teamId, uid).role
    ELSE "none"

ActorRole == RoleIn(before, Team, resp.actor)

\* C1: every route other than login and logout answers a request whose
\* session holds no userId with 401, before the body is validated and
\* without a storage call; the store and the sessions stay as they were.
C1_RequireAuthFirst ==
    (Answered /\ resp.actor = 0
        /\ Ep \notin {"POST /api/auth/login", "POST /api/auth/logout"})
    => /\ resp.status = 401
       /\ resp.calls = <<>>
       /\ Unchanged

\* A request with an invalid body on a session that holds no userId got 401.
C1_Witness ==
    /\ Ep = "POST /api/teams"
    /\ resp.actor = 0
    /\ ~resp.req.valid
    /\ resp.status = 401

\* C2 as claimed: a request by an actor with no membership in the team that
\* owns what it reads or writes is answered 403 with a message only.
C2_NonMemberForbidden ==
    (Answered /\ resp.actor # 0 /\ resp.req.valid /\ Team # 0
        /\ ActorRole = "none")
    => (resp.status = 403 /\ resp.kind = "message")

\* The admin-only requests of C3 and what each applies.
AdminOnlyRoutes ==
    {"PUT /api/teams/:id", "DELETE /api/teams/:id",
     "POST /api/teams/:id/members",
     "DELETE /api/teams/:teamId/members/:userId",
     "PUT /api/projects/:id", "DELETE /api/projects/:id"}

\* The team whose admins may do the last request: the team named, or the
\* team of the project named; 0 when the team or project is not stored.
AdminTeam ==
    IF Ep \in {"PUT /api/projects/:id", "DELETE /api/projects/:id"}
    THEN IF has(before, "projects", resp.req.id)
         THEN before.projects[resp.req.id].teamId ELSE 0
    ELSE TeamOfTeam(before, resp.req.id)

\* The last request is one of C3's: admin-only, well-formed, on a stored team
\* or project, and a removal names another user who is a member.
C3_Case ==
    /\ Ep \in AdminOnlyRoutes
    /\ resp.actor # 0
    /\ resp.req.valid
    /\ AdminTeam # 0
    /\ Ep = "DELETE /api/teams/:teamId/members/:userId"
        => (resp.req.id2 # resp.actor
            /\ isMember(before, AdminTeam, resp.req.id2))

\* The rows of table t other than row id are as the request found them.
OthersKept(t, id) ==
    /\ DOMAIN State[t] \ {id} = DOMAIN before[t] \ {id}
    /\ \A i \in DOMAIN State[t] \ {id} : State[t][i] = before[t][i]

\* Only table t changed.
OnlyTable(t) ==
    /\ session = before.session
    /\ \A u \in Tables \ {t} :
        State[u] = before[u] /\ nextId[u] = before.nextId[u]

\* The change the last admin-only request asks for is in the store, and
\* nothing else changed.
C3_Applied ==
    LET id == resp.req.id
        body == resp.req.body
    IN
    CASE Ep = "PUT /api/teams/:id" ->
            /\ resp.status = 200
            /\ OnlyTable("teams") /\ OthersKept("teams", id)
            /\ teams[id] = Spread(before.teams[id], body)
      [] Ep = "DELETE /api/teams/:id" ->
            /\ resp.status = 200
            /\ OnlyTable("teams") /\ OthersKept("teams", id)
            /\ id \notin DOMAIN teams
      [] Ep = "POST /api/teams/:id/members" ->
            LET m == before.nextId.members IN
            /\ resp.status = 201
            /\ OnlyTable("members") /\ OthersKept("members", m)
            /\ m \notin DOMAIN before.members
            /\ members[m] = [id |-> m, teamId |-> id,
                             userId |-> body.userId, role |-> body.role]
      [] Ep = "DELETE /api/teams/:teamId/members/:userId" ->
            /\ resp.status = 200
            /\ OnlyTable("members")
            /\ \E m \in memberIds(before, id, resp.req.id2) :
                /\ m \notin DOMAIN members
                /\ OthersKept("members", m)
      [] Ep = "PUT /api/projects/:id" ->
            /\ resp.status = 200
            /\ OnlyTable("projects") /\ OthersKept("projects", id)
            /\ projects[id] = Spread(before.projects[id], body)
      [] Ep = "DELETE /api/projects/:id" ->
            /\ resp.status = 200
            /\ OnlyTable("projects") /\ OthersKept("projects", id)
            /\ id \notin DOMAIN projects

\* C3: an admin-only request by an actor whose membership in the owning team
\* has role member is answered 403 and changes nothing; by an actor whose
\* membership has role admin it succeeds and its change is applied.
C3_AdminOnly ==
    C3_Case =>
        LET role == RoleIn(before, AdminTeam, resp.actor) IN
        /\ role = "member" => (resp.status = 403 /\ Unchanged)
        /\ role = "admin" => C3_Applied

\* A member without the admin role asked to remove another member's
\* membership and got 403.
C3_Witness ==
    /\ C3_Case
    /\ Ep = "DELETE /api/teams/:teamId/members/:userId"
    /\ RoleIn(before, AdminTeam, resp.actor) = "member"
    /\ resp.status = 403

\* The delete requests on a comment, a file and a message, and the table
\* each deletes from.
LeafOf(ep) ==
    CASE ep = "DELETE /api/comments/:id" -> "comments"
      [] ep = "DELETE /api/files/:id" -> "files"
      [] ep = "DELETE /api/messages/:id" -> "messages"
      [] OTHER -> ""

\* The user who wrote or uploaded record id of the leaf table t.
AuthorOf(st, t, id) ==
    IF t = "files" THEN st.files[id].uploadedBy ELSE st[t][id].userId

\* The last request asked to delete a stored comment, file or message whose
\* chain reaches a stored team.
LeafDelete ==
    /\ LeafOf(Ep) # ""
    /\ resp.actor # 0
    /\ has(before, LeafOf(Ep), resp.req.id)
    /\ Team # 0

\* C4 as claimed: deleting a comment, file or message succeeds for its author
\* or uploader whatever the team role and for an admin member of the owning
\* team, and is answered 403 with the record kept for any other member; the
\* three kinds of record answer alike.
C4_LeafDeleteUniform ==
    LeafDelete =>
        LET t == LeafOf(Ep)
            id == resp.req.id
        IN
        IF AuthorOf(before, t, id) = resp.actor \/ ActorRole = "admin"
        THEN resp.status = 200 /\ ~has(State, t, id)
        ELSE ActorRole = "member" => (resp.status = 403 /\ Unchanged)

\* The requests on a project, task, comment, file or message.
ResourceRoutes ==
    {"GET /api/projects", "POST /api/projects", "GET /api/tasks",
     "POST /api/tasks", "POST /api/files", "DELETE /api/comments/:id",
     "DELETE /api/files/:id", "DELETE /api/messages/:id"}
    \cup ProjectRoutes \cup TaskRoutes \cup MessageRoutes

\* st with the global role of user uid the other way round.
FlipRole(st, uid) ==
    IF has(st, "users", uid)
    THEN [st EXCEPT !.users[uid].role =
                        IF @ = "admin" THEN "member" ELSE "admin"]
    ELSE st

\* The last request, had its actor held the other global role, gets the same
\* status and kind of body after the same storage calls and makes the same
\* change.  (The bodies themselves are not compared: a comment or message
\* is returned with its author's user record, role included.)
SameUnderRoleFlip ==
    \E r \in {Handle(FlipRole(before, resp.actor), resp.req)} :
        /\ r.status = resp.status
        /\ r.kind = resp.kind
        /\ r.calls = resp.calls
        /\ r.st = FlipRole(State, resp.actor)

\* C5 as claimed: a request on a project, task, comment, file or message
\* gets the same response and makes the same change whichever global role
\* its actor holds, and a global admin with no membership in the owning team
\* is answered 403.
C5_GlobalRoleIrrelevant ==
    (Answered /\ resp.actor # 0 /\ resp.req.valid /\ Ep \in ResourceRoutes
        /\ has(before, "users", resp.actor))
    => /\ SameUnderRoleFlip
       /\ (isGlobalAdmin(before, resp.actor) /\ Team # 0
            /\ ActorRole = "none") => resp.status = 403

\* C6 as claimed: PUT /api/users/:id changes the stored user only for the
\* user themselves or a global admin, a user's global role changes only in
\* a request whose actor is a global admin, and a denied request leaves the
\* users as they were.
C6_RoleChangeOnlyByAdmin ==
    (Ep = "PUT /api/users/:id" /\ resp.actor # 0)
    => /\ users # before.users =>
            (resp.actor = resp.req.id \/ isGlobalAdmin(before, resp.actor))
       /\ \A u \in DOMAIN users \cap DOMAIN before.users :
            users[u].role # before.users[u].role
                => isGlobalAdmin(before, resp.actor)
       /\ resp.status = 403 => Unchanged

\* C7: a user record leaves the store only in a DELETE /api/users/:id for
\* that id whose actor is a global admin and is not that user, so no request
\* removes its own actor's record; and POST /api/users is answered 201 only
\* for an actor who is a global admin.
C7_UserRemoval ==
    /\ \A u \in DOMAIN before.users \ DOMAIN users :
        /\ Ep = "DELETE /api/users/:id"
        /\ resp.req.id = u
        /\ isGlobalAdmin(before, resp.actor)
        /\ u # resp.actor
    /\ (Ep = "POST /api/users" /\ resp.status = 201)
        => isGlobalAdmin(before, resp.actor)

\* A global admin asked to delete their own record: 400, record kept.
C7_Witness ==
    /\ Ep = "DELETE /api/users/:id"
    /\ isGlobalAdmin(before, resp.actor)
    /\ resp.req.id = resp.actor
    /\ resp.status = 400
    /\ has(State, "users", resp.actor)

\* The last request was a well-formed POST /api/teams on a session that
\* holds a userId.
PostTeamsCase ==
    /\ Ep = "POST /api/teams"
    /\ resp.actor # 0
    /\ resp.req.valid

\* The team a POST /api/teams stores, with its creator enrolled as admin and
\* nothing else changed.
TeamCreated ==
    LET t == before.nextId.teams
        m == before.nextId.members
    IN
    /\ resp.status = 201
    /\ t \notin DOMAIN before.teams
    /\ OthersKept("teams", t)
    /\ teams[t] = [id |-> t, name |-> resp.req.body.name,
                   createdBy |-> resp.actor]
    /\ m \notin DOMAIN before.members
    /\ OthersKept("members", m)
    /\ members[m] = [id |-> m, teamId |-> t, userId |-> resp.actor,
                     role |-> "admin"]
    /\ isAdminMember(State, t, resp.actor)
    /\ session = before.session
    /\ \A u \in Tables \ {"teams", "members"} : State[u] = before[u]

\* C8 as claimed: POST /api/teams by a global admin stores the team and the
\* creator's admin membership; by any other actor it is answered 403 and
\* stores nothing.
C8_AsClaimed ==
    PostTeamsCase =>
        IF isGlobalAdmin(before, resp.actor) THEN TeamCreated
        ELSE resp.status = 403 /\ Unchanged

\* C8: POST /api/teams by a global admin stores a team with createdBy the
\* session's user and a membership (that team, the actor, admin); by an actor
\* whose stored role is not admin it is answered 403, by an actor whose user
\* record is not stored 404, and in both nothing is stored.
C8_PostTeams ==
    PostTeamsCase =>
        IF isGlobalAdmin(before, resp.actor) THEN TeamCreated
        ELSE IF has(before, "users", resp.actor)
        THEN resp.status = 403 /\ Unchanged
        ELSE resp.status = 404 /\ Unchanged

\* An actor whose user record was deleted while their session lived asked
\* for a team: 404.
C8_Witness ==
    /\ PostTeamsCase
    /\ ~has(before, "users", resp.actor)
    /\ resp.status = 404

\* The last request was a DELETE of a membership of a stored team on a
\* session that holds a userId.
RemoveCase ==
    /\ Ep = "DELETE /api/teams/:teamId/members/:userId"
    /\ resp.actor # 0
    /\ has(before, "teams", resp.req.id)

\* The actor is a member of the team and is its admin or the user named.
RemoveAllowed ==
    /\ ActorRole # "none"
    /\ ActorRole = "admin" \/ resp.req.id2 = resp.actor

\* One membership row of the user named left the team, nothing else changed.
MembershipRemoved ==
    /\ OnlyTable("members")
    /\ \E m \in memberIds(before, resp.req.id, resp.req.id2) :
        m \notin DOMAIN members /\ OthersKept("members", m)

\* C9 as claimed: the membership is removed exactly when the actor is a
\* member and is admin or the user named; otherwise 403, members unchanged.
C9_AsClaimed ==
    RemoveCase =>
        IF RemoveAllowed THEN MembershipRemoved
        ELSE resp.status = 403 /\ members = before.members

\* C9: with the team stored, the membership (teamId, userId) is removed
\* exactly when it is stored and the actor is a member of the team who is
\* admin or the user named; when such an actor names a user with no
\* membership the answer is 404, for any other actor 403, and in both the
\* member list is unchanged.
C9_RemoveMember ==
    RemoveCase =>
        IF RemoveAllowed /\ isMember(before, resp.req.id, resp.req.id2)
        THEN resp.status = 200 /\ MembershipRemoved
        ELSE /\ resp.status = IF RemoveAllowed THEN 404 ELSE 403
             /\ Unchanged

\* A team admin asked to remove a user who has no membership: 404.
C9_Witness ==
    /\ RemoveCase
    /\ RemoveAllowed
    /\ ~isMember(before, resp.req.id, resp.req.id2)
    /\ resp.status = 404

\* The last request was a GET /api/tasks naming an assignee other than its
\* actor.
OtherAssignee ==
    /\ Ep = "GET /api/tasks"
    /\ resp.actor # 0
    /\ resp.req.body.assigneeId \notin {0, resp.actor}

\* C10 as claimed: GET /api/tasks with assigneeId another user's id is
\* answered 403 with no tasks whatever else the query carries.
C10_AsClaimed ==
    OtherAssignee => (resp.status = 403 /\ resp.kind = "message")

\* C10: GET /api/tasks with no projectId and with assigneeId another user's
\* id is answered 403 with no tasks and no storage call, for every actor.
C10_OtherAssignee ==
    (OtherAssignee /\ resp.req.body.projectId = 0)
    => /\ resp.status = 403
       /\ resp.kind = "message"
       /\ resp.calls = <<>>
       /\ Unchanged

\* A global admin asked for another user's tasks: 403.
C10_Witness ==
    /\ OtherAssignee
    /\ resp.req.body.projectId = 0
    /\ isGlobalAdmin(before, resp.actor)
    /\ resp.status = 403

\* The record a request on a chained resource starts from: its table and id.
ChainStart(req) ==
    LET ep == req.ep IN
    CASE ep \in MessageRoutes -> [t |-> "teams", id |-> req.id]
      [] ep = "POST /api/projects" ->
            [t |-> "teams", id |-> Field(req.body, "teamId", 0)]
      [] ep \in ProjectRoutes -> [t |-> "projects", id |-> req.id]
      [] ep \in {"POST /api/tasks", "POST /api/files"} ->
            [t |-> "projects", id |-> Field(req.body, "projectId", 0)]
      [] ep \in TaskRoutes -> [t |-> "tasks", id |-> req.id]
      [] OTHER -> [t |-> LeafOf(ep), id |-> req.id]

ChainRoutes ==
    ResourceRoutes \ {"GET /api/projects", "GET /api/tasks"}

\* The first link absent from st on the way from row id of table t out to
\* the team: the table's name, "" when the whole chain is stored.
RECURSIVE FirstMissing(_, _, _)
FirstMissing(st, t, id) ==
    IF ~has(st, t, id) THEN t
    ELSE CASE t = "comments" -> FirstMissing(st, "tasks", st.comments[id].taskId)
           [] t = "files" -> FirstMissing(st, "projects", st.files[id].projectId)
           [] t = "messages" -> FirstMissing(st, "teams", st.messages[id].teamId)
           [] t = "tasks" -> FirstMissing(st, "projects", st.tasks[id].projectId)
           [] t = "projects" -> FirstMissing(st, "teams", st.projects[id].teamId)
           [] OTHER -> ""

\* The 404 message for a missing row of table t.
NotFound(t) ==
    CASE t = "teams" -> "Team not found"
      [] t = "projects" -> "Project not found"
      [] t = "tasks" -> "Task not found"
      [] t = "comments" -> "Comment not found"
      [] t = "files" -> "File not found"
      [] t = "messages" -> "Message not found"
      [] OTHER -> ""

\* C11 as claimed: a request on a message, project, file, task or comment
\* finds every link of its chain out to the team before it looks at
\* membership, so with a link absent it is answered 404 naming the first
\* absent link, never 403 or 200.
C11_ChainChecked ==
    (Answered /\ resp.actor # 0 /\ resp.req.valid /\ Ep \in ChainRoutes)
    => LET start == ChainStart(resp.req)
           missing == FirstMissing(before, start.t, start.id)
       IN missing # "" =>
            /\ resp.status = 404
            /\ resp.val = NotFound(missing)

\* The requests that delete one record.
DeleteRoutes ==
    {"DELETE /api/users/:id", "DELETE /api/teams/:id",
     "DELETE /api/teams/:teamId/members/:userId", "DELETE /api/projects/:id",
     "DELETE /api/tasks/:id", "DELETE /api/comments/:id",
     "DELETE /api/files/:id", "DELETE /api/messages/:id"}

\* C12 as claimed: when a delete request succeeded, the same request sent
\* again on the same session right after it is answered 404 and changes
\* nothing; this includes a member who removed their own membership.
C12_RepeatedDelete ==
    (Ep \in DeleteRoutes /\ resp.status = 200)
    => \E r \in {Handle(State, resp.req)} :
        /\ r.status = 404
        /\ r.st = State

\* C13 as claimed: a request answered with a status outside 2xx leaves the
\* store exactly as it found it; in particular no comment or message stays
\* stored when its creation is answered 500 at the user lookup.
C13_AllOrNothing ==
    (Answered /\ resp.status \notin 200..299) => StoreUnchanged

\* The tables whose rows record who made them, and the column that does.
Authored == {"teams", "comments", "files", "messages"}

AuthorField(t) ==
    IF t = "teams" THEN "createdBy"
    ELSE IF t = "files" THEN "uploadedBy" ELSE "userId"

\* The rows of table t the last request created.
Created(t) == DOMAIN State[t] \ DOMAIN before[t]

UserObjects(kind, val) ==
    IF kind = "one" THEN
        {val} \cup (IF "user" \in DOMAIN val THEN {val.user} ELSE {})
    ELSE IF kind = "list" THEN
        {val[i] : i \in DOMAIN val}
        \cup {val[i].user : i \in {j \in DOMAIN val : "user" \in DOMAIN val[j]}}
    ELSE {}

\* No object the handlers put in a response body has a password field, at
\* top level or as an embedded user.  (What the store itself embeds in the
\* rows of the member list and the comment list is outside this module.)
NoPasswordInResponse ==
    \A u \in UserObjects(resp.kind, resp.val) : "password" \notin DOMAIN u

\* The last request was a login with the bootstrap credentials.
BootstrapLogin ==
    /\ Ep = "POST /api/auth/login"
    /\ resp.req.body.username = "admin"
    /\ resp.req.body.password = BootstrapPassword

\* The users named admin in st.
Admins(st) == usersWith(st, "username", "admin")

\* C16: a login with the bootstrap credentials, when no user named admin is
\* stored, creates exactly one user, named admin with global role admin, and
\* binds the session to its id; when one is stored it creates no user and
\* binds the session to the stored one.  A login never raises the number of
\* users named admin above one.
C16_Bootstrap ==
    /\ BootstrapLogin =>
        /\ resp.status = 200
        /\ IF Admins(before) = {}
           THEN \E id \in Created("users") :
                   /\ Created("users") = {id}
                   /\ OthersKept("users", id)
                   /\ users[id].username = "admin"
                   /\ users[id].role = "admin"
                   /\ session[resp.req.sid] = id
           ELSE /\ users = before.users
                /\ session[resp.req.sid] \in Admins(before)
    /\ Ep = "POST /api/auth/login" =>
        Cardinality(Admins(State)) <= IF Admins(before) = {} THEN 1
                                      ELSE Cardinality(Admins(before))

\* A bootstrap login on a session bound to another user, with the admin user
\* already stored: no user created, the session now the admin's.
C16_Witness ==
    /\ BootstrapLogin
    /\ Admins(before) # {}
    /\ resp.actor \notin Admins(before) \cup {0}
    /\ users = before.users
    /\ session[resp.req.sid] \in Admins(before)

\* The last request was the login that provisions the bootstrap user.
ProvisioningLogin == BootstrapLogin /\ Admins(before) = {}

\* C17 as claimed: except for the login that provisions the bootstrap user,
\* a login binds the session to a stored user only when the password
\* presented equals that user's stored password; with the old password,
\* the bootstrap password of the user named admin included, it is answered
\* 401.
C17_StoredPasswordOnly ==
    (Ep = "POST /api/auth/login" /\ ~ProvisioningLogin)
    => IF \E u \in DOMAIN before.users :
            /\ before.users[u].username = resp.req.body.username
            /\ before.users[u].password = resp.req.body.password
       THEN resp.status = 200
       ELSE resp.status = 401 /\ session = before.session

\* The last request was a login that was not answered 200.
FailedLogin == Ep = "POST /api/auth/login" /\ resp.status # 200

\* C18: a failed login is answered 401 with the message "Invalid
\* credentials", for an unknown username as for a known one with a wrong
\* password; no user is created, nothing stored changes, and every session
\* keeps the userId it held.
C18_FailedLogin ==
    FailedLogin
    => /\ resp.status = 401
       /\ resp.kind = "message"
       /\ resp.val = "Invalid credentials"
       /\ Unchanged

\* A login with a stored username and a wrong password failed on a session
\* bound to a user, and the same session would get the same answer for a
\* username that is not stored.
C18_Witness ==
    /\ FailedLogin
    /\ before.session[resp.req.sid] # 0
    /\ session[resp.req.sid] = before.session[resp.req.sid]
    /\ usersWith(before, "username", resp.req.body.username) # {}
    /\ usersWith(before, "username", "ghost") = {}
    /\ \E r \in {Handle(before, Rq("POST /api/auth/login", resp.req.sid, 0, 0,
                                   [username |-> "ghost", password |-> "pw"]))} :
            /\ r.status = resp.status
            /\ r.val = resp.val
            /\ r.st = State

\* Requests on session s to routes behind requireAuth.
GatedProbes(s) ==
    {Rq(ep, s, 1, 1, NoBody) :
        ep \in {"GET /api/auth/me", "GET /api/users", "GET /api/teams",
                "DELETE /api/teams/:id", "GET /api/projects/:id",
                "DELETE /api/tasks/:id", "GET /api/teams/:teamId/messages"}}

\* C19: a session's userId changes only on that session's own request:
\* a login answered 200 sets it to the id of the stored user with the
\* username presented, a logout clears it, and no other request on any
\* session changes it.  After a logout answered 200 the session holds no
\* userId and requests behind requireAuth on it are answered 401.
C19_SessionLifecycle ==
    /\ \A s \in DOMAIN session :
        session[s] # before.session[s] =>
            /\ s = resp.req.sid
            /\ \/ /\ Ep = "POST /api/auth/login"
                  /\ resp.status = 200
               \/ /\ Ep = "POST /api/auth/logout"
                  /\ session[s] = 0
    /\ (Ep = "POST /api/auth/login" /\ resp.status = 200) =>
            /\ session[resp.req.sid] \in
                    usersWith(State, "username", resp.req.body.username)
            /\ resp.val.id = session[resp.req.sid]
    /\ (Ep = "POST /api/auth/login" /\ resp.status # 200) =>
            session = before.session
    /\ (Ep = "POST /api/auth/logout" /\ resp.status = 200) =>
            /\ session[resp.req.sid] = 0
            /\ \A q \in GatedProbes(resp.req.sid) :
                    Handle(State, q).status = 401

\* A session bound to a user was logged out.
C19_Witness ==
    /\ Ep = "POST /api/auth/logout"
    /\ resp.status = 200
    /\ before.session[resp.req.sid] # 0
    /\ session[resp.req.sid] = 0

\* C20 as claimed: a project stored before and after a request has the
\* teamId it had, and a task stored before and after a request has the
\* projectId it had, whatever the request and its body.
C20_ForeignKeysImmutable ==
    /\ \A p \in DOMAIN projects \cap DOMAIN before.projects :
            projects[p].teamId = before.projects[p].teamId
    /\ \A k \in DOMAIN tasks \cap DOMAIN before.tasks :
            tasks[k].projectId = before.tasks[k].projectId

\* No two users of st have the same username or the same email.
UniqueUsers(st) ==
    \A a, b \in DOMAIN st.users :
        a # b => /\ st.users[a].username # st.users[b].username
                 /\ st.users[a].email # st.users[b].email

\* C21 as claimed: no two stored users have the same username and no two
\* have the same email, after any request.
C21_UniqueUsers == UniqueUsers(State)

\* C22 as claimed: a team holds at most one membership record per user,
\* after any request.
C22_OneMembershipPerUser ==
    \A t \in DOMAIN teams, u \in DOMAIN users :
        Cardinality(memberIds(State, t, u)) <= 1

\* The elements of a list response.
Listed(val) == {val[i] : i \in DOMAIN val}

\* The teams of st in which user u has a membership record.
TeamsOf(st, u) ==
    {t \in DOMAIN st.teams :
        \E m \in DOMAIN st.members :
            st.members[m].teamId = t /\ st.members[m].userId = u}

\* The projects of st whose teamId is in ts.
ProjectsIn(st, ts) ==
    {st.projects[p] : p \in {q \in DOMAIN st.projects :
                                st.projects[q].teamId \in ts}}

\* C23: GET /api/projects answered 200 lists, without teamId, exactly the
\* projects of the teams the actor has a membership in and, with teamId t,
\* exactly the projects of t, the actor being a member of t; no listed
\* project is of a team the actor has no membership in.
C23_ProjectLists ==
    (Ep = "GET /api/projects" /\ resp.status = 200)
    => /\ resp.kind = "list"
       /\ IF resp.req.body.teamId = 0
          THEN Listed(resp.val) =
                    ProjectsIn(before, TeamsOf(before, resp.actor))
          ELSE /\ resp.req.body.teamId \in TeamsOf(before, resp.actor)
               /\ Listed(resp.val) =
                    ProjectsIn(before, {resp.req.body.teamId})
       /\ \A p \in Listed(resp.val) :
                p.teamId \in TeamsOf(before, resp.actor)
       /\ Unchanged

\* The unscoped list of an actor with memberships in two teams held a
\* project of each, while a project of neither team was stored or the
\* actor's teams were all the teams.
C23_Witness ==
    /\ Ep = "GET /api/projects"
    /\ resp.status = 200
    /\ resp.req.body.teamId = 0
    /\ Cardinality(TeamsOf(before, resp.actor)) = 2
    /\ Cardinality({p.teamId : p \in Listed(resp.val)}) = 2

\* A member of one team only got the unscoped list, which left out a stored
\* project of the other team.
C23_WitnessOther ==
    /\ Ep = "GET /api/projects"
    /\ resp.status = 200
    /\ resp.req.body.teamId = 0
    /\ Listed(resp.val) # {}
    /\ \E p \in DOMAIN projects : projects[p] \notin Listed(resp.val)

\* The users with a membership record in team t of st.
MembersOf(st, t) ==
    {st.members[m].userId :
        m \in {k \in DOMAIN st.members : st.members[k].teamId = t}}

\* The state with the client session bound to user u.
BoundTo(st, u) == [st EXCEPT !.session[2] = u]

\* User u, on a session bound to it, gets project p with 200 and finds it in
\* the unscoped project list and in the list of the project's team.
Visible(st, u, p) ==
    LET own == BoundTo(st, u)
        t == st.projects[p].teamId
    IN
    /\ \E r \in {Handle(own, Rq("GET /api/projects/:id", 2, p, 0, NoBody))} :
            r.status = 200 /\ r.val = st.projects[p]
    /\ \E r \in {Handle(own, Rq("GET /api/projects", 2, 0, 0, [teamId |-> 0]))} :
            r.status = 200 /\ st.projects[p] \in Listed(r.val)
    /\ \E r \in {Handle(own, Rq("GET /api/projects", 2, 0, 0, [teamId |-> t]))} :
            r.status = 200 /\ st.projects[p] \in Listed(r.val)

\* The last request was a valid POST /api/projects by a member of the
\* team it names.
MemberCreatesProject ==
    /\ Ep = "POST /api/projects"
    /\ resp.req.valid
    /\ resp.req.body.teamId \in TeamsOf(before, resp.actor)

RaceTeam(st, req) ==
    IF req.ep = "PUT /api/projects/:id" THEN st.projects[req.id].teamId
    ELSE IF req.ep = "DELETE /api/tasks/:id"
    THEN st.projects[st.tasks[req.id].projectId].teamId
    ELSE req.id

\* The team role the mutation asks of its actor is held in st.
Authorized(st, req, uid) ==
    LET role == RoleIn(st, RaceTeam(st, req), uid) IN
    CASE req.ep = "DELETE /api/tasks/:id" -> role # "none"
      [] req.ep = "DELETE /api/teams/:teamId/members/:userId" ->
            role = "admin" \/ (role = "member" /\ uid = req.id2)
      [] OTHER -> role = "admin"

\* The last step was the write of a mutation handled call by call.
WriteApplied ==
    /\ Ep \in {"PUT /api/projects/:id", "DELETE /api/tasks/:id",
               "POST /api/teams/:id/members",
               "DELETE /api/teams/:teamId/members/:userId"}
    /\ inflight[resp.req.sid].phase = "done"
    /\ resp.status \in 200..299
    /\ StoreOf(State) # StoreOf(before)

\* C25: with requests handled one store call at a time, a mutation is
\* applied exactly on the strength of what the actor's membership lookup
\* returned: the role it needs was held in the memberships as the handler
\* looked them up, whether or not it is still held in the store the write
\* is applied to.
C25_DecidedAtLookup ==
    WriteApplied =>
        Authorized(inflight[resp.req.sid].view, resp.req, resp.actor)

\* A mutation was applied for an actor who, in the store it was applied to,
\* had no membership in the owning team any more: the other request removed
\* it after the actor's lookup.
C25_Witness ==
    /\ WriteApplied
    /\ Ep # "DELETE /api/teams/:teamId/members/:userId"
    /\ Authorized(inflight[resp.req.sid].view, resp.req, resp.actor)
    /\ RoleIn(before, RaceTeam(before, resp.req), resp.actor) = "none"

\* Team t of st has no membership with role admin.
AdminLess(st, t) ==
    \A m \in DOMAIN st.members :
        st.members[m].teamId = t => st.members[m].role # "admin"

\* The last request, well-formed and on a session that holds a userId, asks
\* to update or delete a stored team without admin, to add a member to it,
\* or to update or delete one of its projects.
AdminlessCase ==
    /\ Ep \in AdminOnlyRoutes \ {"DELETE /api/teams/:teamId/members/:userId"}
    /\ resp.actor # 0
    /\ resp.req.valid
    /\ AdminTeam \in DOMAIN before.teams
    /\ AdminLess(before, AdminTeam)

\* C26: a stored team without an admin membership stays stored and without
\* one after every request, and every well-formed request of a logged-in
\* actor to update or delete it, to add a member to it, or to update or
\* delete one of its projects is answered 403 and changes nothing.
C26_AdminlessForever ==
    /\ \A t \in DOMAIN before.teams :
            AdminLess(before, t) => (t \in DOMAIN teams /\ AdminLess(State, t))
    /\ AdminlessCase => (resp.status = 403 /\ Unchanged)

\* The only admin of the team removed their own membership; then a user
\* whose global role is admin asked to add a member and got 403.
C26_Witness ==
    /\ AdminlessCase
    /\ Ep = "POST /api/teams/:id/members"
    /\ has(before, "users", resp.actor)
    /\ before.users[resp.actor].role = "admin"
    /\ getTeamMembers(before, AdminTeam) # {}
    /\ resp.status = 403

C28_ConvertDates ==
    conv.done =>
        /\ DOMAIN conv.out = DOMAIN conv.body
        /\ \A k \in DOMAIN conv.body :
            conv.out[k] =
                IF /\ k \in DateKeys
                   /\ conv.body[k].type = "string"
                   /\ conv.body[k].v # ""
                   /\ Parses(conv.body[k].v)
                THEN [type |-> "date", v |-> conv.body[k].v]
                ELSE conv.body[k]

\* ------------------------------------------------- task lists and teams

\* The task belongs to a stored project whose team u has a membership in.
InActorsTeam(st, task, u) ==
    /\ task.projectId \in DOMAIN st.projects
    /\ st.projects[task.projectId].teamId \in TeamsOf(st, u)

\* C29: every task of a 200 answer of GET /api/tasks, by projectId, by
\* assigneeId or unscoped, belongs to a project whose team the actor is a
\* member of.
C29_TaskListsInTeams ==
    (Ep = "GET /api/tasks" /\ resp.status = 200) =>
        \A task \in Listed(resp.val) : InActorsTeam(State, task, resp.actor)

\* The same with the lists by projectId only.
C29_ByProjectOnly ==
    (/\ Ep = "GET /api/tasks"
     /\ resp.status = 200
     /\ Field(resp.req.body, "projectId", 0) # 0) =>
        \A task \in Listed(resp.val) : InActorsTeam(State, task, resp.actor)

\* ------------------------------------------- sessions of deleted users

\* The last request came on a session bound to a user who is not stored.
DeletedActor ==
    /\ Answered
    /\ resp.actor # 0
    /\ ~has(before, "users", resp.actor)
    /\ Ep \notin {"POST /api/auth/login", "POST /api/auth/logout"}

\* The requests gated on the actor's global role admin.
GlobalAdminRoutes ==
    {"POST /api/users", "DELETE /api/users/:id", "POST /api/teams"}

\* The requests on a team or on what a team owns.
TeamScopedRoutes == TeamRoutes \cup MemberRoutes \cup ResourceRoutes

\* st with a user record of global role member stored for u.
Restored(st, u) ==
    [st EXCEPT !.users = @ @@ (u :> [id |-> u, username |-> "ghost",
                                     password |-> "pw", email |-> "ghost",
                                     role |-> "member"])]

\* The last request is refused with 403 exactly when it would be with its
\* actor's user record still stored, and makes the same change to the teams,
\* memberships and records.  (The answers themselves are not compared: a
\* created comment or message is returned with its author's user record.)
AsIfStored ==
    \E r \in {Handle(Restored(before, resp.actor), resp.req)} :
        /\ (r.status = 403) = (resp.status = 403)
        /\ r.st = Restored(State, resp.actor)

\* C30: a request on a session whose user has been deleted still passes
\* requireAuth (it is not answered 401); GET /api/auth/me is answered 404;
\* creating a user, deleting a user and creating a team are denied and
\* change nothing; and a request on a team or its records is allowed or
\* refused as the membership records decide, the same as if the user record
\* were stored, a remaining admin membership still granting the admin-only
\* changes.
C30_DeletedUserSession ==
    DeletedActor =>
        /\ resp.status # 401
        /\ session[resp.req.sid] = resp.actor
        /\ Ep = "GET /api/auth/me" => resp.status = 404
        /\ Ep \in GlobalAdminRoutes =>
                (resp.status \in {400, 403, 404} /\ Unchanged)
        /\ Ep \in TeamScopedRoutes => AsIfStored
        /\ (C3_Case /\ RoleIn(before, AdminTeam, resp.actor) = "admin")
                => C3_Applied

\* A deleted user whose membership as team admin remains updated the team.
C30_Witness ==
    /\ DeletedActor
    /\ Ep = "PUT /api/teams/:id"
    /\ RoleIn(before, AdminTeam, resp.actor) = "admin"
    /\ resp.status = 200
    /\ teams # before.teams

\* A deleted user asked for their own record and got 404.
C30_WitnessMe ==
    DeletedActor /\ Ep = "GET /api/auth/me" /\ resp.status = 404

\* A deleted user who was a global admin asked to create a team.
C30_WitnessDenied ==
    DeletedActor /\ Ep = "POST /api/teams" /\ resp.req.valid /\ resp.status = 404

\* ------------------------------------------- memberships across teams

\* The membership rows of team t in st.
MembershipsOf(st, t) == {st.members[m] : m \in getTeamMembers(st, t)}

\* C31: POST /api/teams/:id/members stores at most one new membership, in
\* the team of the path id whatever teamId the body carries, and changes no
\* stored membership; the memberships of every team in which the actor is
\* not an admin stay as they were.
C31_MembershipInPathTeam ==
    Ep = "POST /api/teams/:id/members" =>
        /\ \A m \in Created("members") :
                /\ members[m].teamId = resp.req.id
                /\ Created("members") = {m}
        /\ \A m \in DOMAIN before.members :
                m \in DOMAIN members /\ members[m] = before.members[m]
        /\ \A t \in TeamIds :
                ~isAdminMember(before, t, resp.actor) =>
                    MembershipsOf(State, t) = MembershipsOf(before, t)

\* An admin of team 1 who is no admin of the stored team 2 named team 2 in
\* the body of a request on team 1, and the membership was stored in team 1.
C31_Witness ==
    /\ Ep = "POST /api/teams/:id/members"
    /\ resp.status = 201
    /\ resp.req.id = 1
    /\ Field(resp.req.body, "teamId", 0) = 2
    /\ has(before, "teams", 2)
    /\ isAdminMember(before, 1, resp.actor)
    /\ ~isAdminMember(before, 2, resp.actor)
    /\ \E m \in Created("members") : members[m].teamId = 1

\* ------------------------------------------------------- read requests

\* The GET routes.
GetRoutes ==
    {"GET /api/auth/me", "GET /api/users", "GET /api/users/:id",
     "GET /api/teams", "GET /api/teams/:id", "GET /api/teams/:id/members",
     "GET /api/teams/:id/members/current", "GET /api/projects",
     "GET /api/projects/:id", "GET /api/tasks", "GET /api/tasks/:id",
     "GET /api/tasks/:taskId/comments", "GET /api/projects/:projectId/files",
     "GET /api/tasks/:taskId/files", "GET /api/teams/:teamId/messages"}

\* C32: a GET request, whatever it is answered, leaves every table, the next
\* ids and every session's userId as they were.
C32_GetsReadOnly ==
    Ep \in GetRoutes => Unchanged

\* A GET request was answered 200 with a list that is not empty, the store
\* as it was.
C32_Witness ==
    /\ Ep \in GetRoutes
    /\ resp.status = 200
    /\ resp.kind = "list"
    /\ resp.val # <<>>
    /\ tasks # EmptyTable
    /\ Unchanged

\* GET /api/auth/me on a session whose user is not stored was answered 404,
\* the store and the session as they were.
C32_WitnessNotFound ==
    Ep = "GET /api/auth/me" /\ resp.status = 404 /\ Unchanged

====
